---- MODULE Spec2Model ----
(***************************************************************************)
(* wifi-tui: the App state reducer (src/app.rs), the event bus, the        *)
(* keyboard/tick multiplexer and the background worker (src/event.rs),    *)
(* and the nmcli adapter helpers the reducer depends on (src/nmcli.rs).   *)
(*                                                                         *)
(* Text is modelled as a sequence of tokens (a token is a phrase that the  *)
(* code searches for, or a run of other characters), so that               *)
(* str::contains is membership of a phrase in the sequence.                *)
(* Option<T> is a sequence of length 0 (None) or 1 (Some(x)).              *)
(***************************************************************************)
EXTENDS Integers, Sequences, FiniteSets, TLC

\* ------------------------------------------------------------------ bounds
MaxTicks == 2        \* Tick events the multiplexer emits in one run
MaxKeys == 4         \* Key events the multiplexer emits in one run
MaxMuxPending == 1   \* Key/Tick events waiting on the bus at one time
MaxPwLen == 1        \* characters typed into the password buffer
MaxTickCount == 122  \* largest ticks_since_scan followed (the counter is a u32)
MaxFields == 2       \* fields of a terse line given to the parser
MaxFieldLen == 2     \* characters of one field
MaxLineLen == 4      \* characters of a raw line given to the parser
MaxRows == 3         \* rows of one `nmcli device wifi list` output
MaxMsgLen == 2       \* phrases of a raw diagnostic text
MaxStatusRows == 2   \* rows of the in-use listing get_status reads
MaxAddressRows == 1  \* rows of the address query get_status reads
MaxLinkLines == 1    \* lines of the link query get_status reads
TickRate == 2        \* tick_rate, in units of the clock
MaxLate == 1         \* clock units followed past the end of a tick interval
MaxInput == 2        \* terminal events waiting to be read
MaxQueueKeys == 5    \* Key events of a run that follows the request queue
MaxRefreshes == 4    \* Tick events that find a refresh due, in such a run

\* --------------------------------------------------------------- constants
AUTO_REFRESH_TICKS == 120

Device == "wlan0"

None == <<>>
Some(x) == <<x>>

\* ------------------------------------------------------------------- keys
\* KeyCode::Char(c) is the one-letter string c; the other codes are named.
KeyChars == {"c", "q", "Q", "r", "R", "d", "D", "f", "F", "y", "Y", "j", "k", "x"}
KeyCodes == KeyChars \cup {"Tab", "BackTab", "Enter", "Esc", "Backspace", "Up", "Down", "F1"}

Key(code, ctrl) == [code |-> code, ctrl |-> ctrl]
CtrlC == Key("c", TRUE)

\* The keys the terminal delivers: every code unmodified, and Ctrl+C, Ctrl+Q.
Keys == {Key(c, FALSE) : c \in KeyCodes} \cup {CtrlC, Key("q", TRUE)}

\* ------------------------------------------------------------------- text
Contains(msg, phrase) == \E i \in DOMAIN msg : msg[i] = phrase

\* Mutant of friendly_error: the 'is not running' rule is tried before the 'No suitable device found' rule.
friendly_error_RunningFirst(msg) ==
    IF Contains(msg, "No network with SSID")
    THEN <<"Network not found. It may be out of range or hidden.">>
    ELSE IF Contains(msg, "Secrets were required, but not provided")
    THEN <<"Password required", ". This network needs a password to connect.">>
    ELSE IF Contains(msg, "is not running")
    THEN <<"NetworkManager ", "is not running", ". Start it with: sudo systemctl start NetworkManager">>
    ELSE IF Contains(msg, "No suitable device found")
    THEN <<"No WiFi adapter found. Make sure your WiFi hardware is enabled.">>
    ELSE IF Contains(msg, "Error: Connection") /\ Contains(msg, "not found")
    THEN <<"Saved connection ", "not found", ". It may have already been removed.">>
    ELSE IF Contains(msg, "Passwords or encryption keys are required")
    THEN <<"Incorrect password", ". Please try again.">>
    ELSE IF Contains(msg, "permission") \/ Contains(msg, "not authorized")
    THEN <<"Permission denied. You may need to run with appropriate privileges.">>
    ELSE IF msg = <<>>
    THEN <<"An unknown error occurred.">>
    ELSE msg

\* nmcli.rs friendly_error
friendly_error(msg) ==
    IF Contains(msg, "No network with SSID")
    THEN <<"Network not found. It may be out of range or hidden.">>
    ELSE IF Contains(msg, "Secrets were required, but not provided")
    THEN <<"Password required", ". This network needs a password to connect.">>
    ELSE IF Contains(msg, "No suitable device found")
    THEN <<"No WiFi adapter found. Make sure your WiFi hardware is enabled.">>
    ELSE IF Contains(msg, "is not running")
    THEN <<"NetworkManager ", "is not running", ". Start it with: sudo systemctl start NetworkManager">>
    ELSE IF Contains(msg, "Error: Connection") /\ Contains(msg, "not found")
    THEN <<"Saved connection ", "not found", ". It may have already been removed.">>
    ELSE IF Contains(msg, "Passwords or encryption keys are required")
    THEN <<"Incorrect password", ". Please try again.">>
    ELSE IF Contains(msg, "permission") \/ Contains(msg, "not authorized")
    THEN <<"Permission denied. You may need to run with appropriate privileges.">>
    ELSE IF msg = <<>>
    THEN <<"An unknown error occurred.">>
    ELSE msg

\* nmcli.rs error_needs_password
error_needs_password(msg) ==
    Contains(msg, "Password required") \/ Contains(msg, "Incorrect password")

\* The phrases a raw diagnostic text is made of: the ones friendly_error
\* looks for, the two error_needs_password looks for, and other text.
RawPhrases ==
    {"No network with SSID", "Secrets were required, but not provided",
     "No suitable device found", "is not running", "Error: Connection", "not found",
     "Passwords or encryption keys are required", "permission", "not authorized",
     "Password required", "Incorrect password", "Error: unknown failure."}
RawTexts == UNION {[1..n -> RawPhrases] : n \in 0..MaxMsgLen}

\* ------------------------------------------------------ terse-line parser
\* A line is a sequence of characters (one-character strings).
\* The state of the loop of parse_terse_line: the characters not yet taken
\* from `chars`, the field being built and the fields pushed so far.
ParseState(rest, current, fields) == [rest |-> rest, current |-> current, fields |-> fields]

\* Mutant of parse_step: the backslash of an escape is kept in the field.
parse_step_KeepsBackslash(st) ==
    LET ch == Head(st.rest) IN
    IF ch = "\\" THEN
        IF Len(st.rest) >= 2 /\ st.rest[2] = ":"
        THEN ParseState(Tail(Tail(st.rest)), st.current \o <<ch, ":">>, st.fields)
        ELSE ParseState(Tail(st.rest), Append(st.current, ch), st.fields)
    ELSE IF ch = ":" THEN
        ParseState(Tail(st.rest), <<>>, Append(st.fields, st.current))
    ELSE ParseState(Tail(st.rest), Append(st.current, ch), st.fields)

\* Mutant of parse_step: an empty field is not pushed.
parse_step_DropsEmpty(st) ==
    LET ch == Head(st.rest) IN
    IF ch = "\\" THEN
        IF Len(st.rest) >= 2 /\ st.rest[2] = ":"
        THEN ParseState(Tail(Tail(st.rest)), Append(st.current, ":"), st.fields)
        ELSE ParseState(Tail(st.rest), Append(st.current, ch), st.fields)
    ELSE IF ch = ":" THEN
        ParseState(Tail(st.rest), <<>>,
                   IF st.current = <<>> THEN st.fields ELSE Append(st.fields, st.current))
    ELSE ParseState(Tail(st.rest), Append(st.current, ch), st.fields)

\* nmcli.rs parse_terse_line: one pass of `while let Some(ch) = chars.next()`.
parse_step(st) ==
    LET ch == Head(st.rest) IN
    IF ch = "\\" THEN
        IF Len(st.rest) >= 2 /\ st.rest[2] = ":"
        THEN ParseState(Tail(Tail(st.rest)), Append(st.current, ":"), st.fields)
        ELSE ParseState(Tail(st.rest), Append(st.current, ch), st.fields)
    ELSE IF ch = ":" THEN
        ParseState(Tail(st.rest), <<>>, Append(st.fields, st.current))
    ELSE ParseState(Tail(st.rest), Append(st.current, ch), st.fields)

\* The characters of field values, the field values, and the records (one
\* field or more) whose line is given to the parser.
Alphabet == {"a", ":", "\\"}
FieldValues == UNION {[1..n -> Alphabet] : n \in 0..MaxFieldLen}
FieldSeqs == UNION {[1..n -> FieldValues] : n \in 1..MaxFields}

\* The raw lines given to the parser.
Lines == UNION {[1..n -> Alphabet] : n \in 0..MaxLineLen}

RECURSIVE EscapeField(_)
\* A field value as the terse output writes it: every ':' becomes '\:'.
EscapeField(f) ==
    IF f = <<>> THEN <<>>
    ELSE (IF Head(f) = ":" THEN <<"\\", ":">> ELSE <<Head(f)>>) \o EscapeField(Tail(f))

RECURSIVE TerseLine(_)
\* The line of a record: its escaped fields joined with ':'.
TerseLine(fields) ==
    IF fields = <<>> THEN <<>>
    ELSE IF Len(fields) = 1 THEN EscapeField(fields[1])
    ELSE EscapeField(Head(fields)) \o <<":">> \o TerseLine(Tail(fields))

\* ------------------------------------------------------- adapter commands
\* Mutant of connect: every present password is passed to nmcli.
connect_NoEmptyCheck(ssid, password) ==
    IF password # None
    THEN <<"device", "wifi", "connect", ssid, "password", password[1]>>
    ELSE <<"connection", "up", ssid>>

\* nmcli.rs connect: the arguments of the nmcli invocation it runs.
connect(ssid, password) ==
    IF password # None /\ password[1] # <<>>
    THEN <<"device", "wifi", "connect", ssid, "password", password[1]>>
    ELSE IF password # None
    THEN <<"device", "wifi", "connect", ssid>>
    ELSE <<"connection", "up", ssid>>

\* ------------------------------------------------- adapter result domains
Network(ssid, signal, security, in_use) ==
    [ssid |-> ssid, signal |-> signal, security |-> security, in_use |-> in_use]
SavedNetwork(name, active) == [name |-> name, active |-> active]
ConnectionStatus(ssid, signal, ip, speed) ==
    [ssid |-> ssid, signal |-> signal, ip |-> ip, speed |-> speed]

NoStatus == ConnectionStatus(None, None, None, None)

\* Lists a successful scan can return (de-duplicated and ordered).
ScanLists ==
    { <<Network("home", 70, "WPA2", TRUE), Network("cafe", 30, "", FALSE)>>,
      <<Network("cafe", 60, "", FALSE)>> }

\* Lists a successful saved-profile listing can return.
SavedLists ==
    { <<>>,
      <<SavedNetwork("home", TRUE), SavedNetwork("cafe", FALSE)>> }

\* Statuses get_status can return.
Statuses == { NoStatus, ConnectionStatus(Some("home"), Some(70), Some("10.0.0.2"), None) }

\* Raw stderr texts of a failed `nmcli device wifi connect` / `connection up`.
ConnectStderr ==
    { <<"Error: Connection activation failed: ", "Secrets were required, but not provided", ".">>,
      <<"Error: ", "No network with SSID", " 'cafe' found.">> }

\* Raw stderr text of the other failed nmcli invocations.
OtherStderr == { <<"Error: NetworkManager ", "is not running", ".">> }

\* ------------------------------------------------------------ scan rows
\* str::trim of an IN-USE field, which is "*" or a blank.
Trim(s) == IF s = " " THEN "" ELSE s

DigitChars == {"0", "1", "2", "3", "4", "5", "6", "7", "8", "9"}
DigitValue(c) ==
    CASE c = "0" -> 0 [] c = "1" -> 1 [] c = "2" -> 2 [] c = "3" -> 3 [] c = "4" -> 4
      [] c = "5" -> 5 [] c = "6" -> 6 [] c = "7" -> 7 [] c = "8" -> 8 [] c = "9" -> 9

RECURSIVE DecimalValue(_)
DecimalValue(s) ==
    IF s = <<>> THEN 0
    ELSE 10 * DecimalValue(SubSeq(s, 1, Len(s) - 1)) + DigitValue(s[Len(s)])

\* str::parse::<u8>: the value as an Option, None when the text is empty, has
\* a character that is not a digit, or does not fit a u8.
ParseU8(s) ==
    IF s # <<>> /\ (\A i \in DOMAIN s : s[i] \in DigitChars) /\ Len(s) <= 3
          /\ DecimalValue(s) <= 255
    THEN Some(DecimalValue(s))
    ELSE None

\* Option::unwrap_or
unwrap_or(opt, default) == IF opt = None THEN default ELSE opt[1]

\* HashMap::insert on the map `best` (a function from the ssids it holds).
MapInsert(map, key, value) ==
    [k \in DOMAIN map \cup {key} |-> IF k = key THEN value ELSE map[k]]

\* Mutant of scan_step: rows with an empty ssid are kept.
scan_step_KeepsHidden(best, fields) ==
    IF Len(fields) < 4 THEN best
    ELSE
        LET ssid == fields[2]
            signal == unwrap_or(ParseU8(fields[3]), 0)
            security == fields[4]
            in_use == Trim(fields[1]) = "*"
            net == Network(ssid, signal, security, in_use)
        IN  IF ssid \in DOMAIN best
            THEN IF in_use \/ (~best[ssid].in_use /\ signal > best[ssid].signal)
                 THEN MapInsert(best, ssid, net)
                 ELSE best
            ELSE MapInsert(best, ssid, net)

\* nmcli.rs scan_networks: the body of `for line in stdout.lines()`, on the
\* fields parse_terse_line gave for the line.
scan_step(best, fields) ==
    IF Len(fields) < 4 THEN best
    ELSE IF fields[2] = "" THEN best
    ELSE
        LET ssid == fields[2]
            signal == unwrap_or(ParseU8(fields[3]), 0)
            security == fields[4]
            in_use == Trim(fields[1]) = "*"
            net == Network(ssid, signal, security, in_use)
        IN  IF ssid \in DOMAIN best
            THEN IF in_use \/ (~best[ssid].in_use /\ signal > best[ssid].signal)
                 THEN MapInsert(best, ssid, net)
                 ELSE best
            ELSE MapInsert(best, ssid, net)

\* The comparator of networks.sort_by gives Ordering::Less for (a, b).
SortsBefore(a, b) ==
    \/ a.in_use /\ ~b.in_use
    \/ a.in_use = b.in_use /\ a.signal > b.signal

\* One element put into a sorted vector, after the elements that do not sort
\* after it.
SortedInsert(x, s) ==
    LET n == Cardinality({i \in DOMAIN s : ~SortsBefore(x, s[i])})
    IN  SubSeq(s, 1, n) \o <<x>> \o SubSeq(s, n + 1, Len(s))

RECURSIVE sort_by(_)
\* slice::sort_by with that comparator: a stable sort.
sort_by(v) ==
    IF v = <<>> THEN <<>>
    ELSE SortedInsert(v[Len(v)], sort_by(SubSeq(v, 1, Len(v) - 1)))

\* HashMap::into_values().collect(): the values in an arbitrary order.
IntoValues(map) ==
    {v \in [1..Cardinality(DOMAIN map) -> {map[k] : k \in DOMAIN map}] :
        \A k \in DOMAIN map : \E i \in DOMAIN v : v[i] = map[k]}

\* The fields of the rows a listing can have: IN-USE, SSID, SIGNAL, SECURITY,
\* and a row with too few fields.
SignalFields == {<<"3", "0">>, <<"7", "0">>, <<>>}
RowFields ==
    {<<u, s, g, "WPA2">> : u \in {"*", " "}, s \in {"", "home", "cafe", "lab"}, g \in SignalFields}
    \cup {<<"*", "home">>}
RowSeqs == UNION {[1..n -> RowFields] : n \in 0..MaxRows}

\* ------------------------------------------------------ connection status
\* The least index of a non-empty set of indices: the row at which a
\* `for line in stdout.lines()` loop breaks.
First(S) == CHOOSE i \in S : \A j \in S : i <= j

\* str::starts_with on a text given as its tokens.
StartsWith(text, prefix) == text # <<>> /\ Head(text) = prefix

\* str::trim of a line of `iw dev <device> link`, which iw indents with a tab.
TrimLine(line) == IF line # <<>> /\ Head(line) = "\t" THEN Tail(line) ELSE line

\* Iterator::take(2)
Take2(words) == SubSeq(words, 1, IF Len(words) < 2 THEN Len(words) ELSE 2)

\* Mutant of get_status: the address is asked for whether or not an ssid was found.
get_status_AddressAlways(list, addr, link) ==
    LET inuse == {i \in DOMAIN unwrap_or(list, <<>>) :
                     /\ Len(list[1][i]) >= 3
                     /\ Trim(list[1][i][1]) = "*"
                     /\ list[1][i][2] # ""}
        ssid == IF inuse = {} THEN None ELSE Some(list[1][First(inuse)][2])
        signal == IF inuse = {} THEN None ELSE ParseU8(list[1][First(inuse)][3])
        addrs == {i \in DOMAIN unwrap_or(addr, <<>>) :
                     /\ Len(addr[1][i]) >= 2
                     /\ StartsWith(addr[1][i][1], "IP4.ADDRESS")}
        rates == {i \in DOMAIN unwrap_or(link, <<>>) :
                     StartsWith(TrimLine(link[1][i]), "tx bitrate:")}
    IN  ConnectionStatus(
            ssid,
            signal,
            IF addrs = {} THEN None ELSE Some(Head(addr[1][First(addrs)][2])),
            IF ssid = None \/ rates = {} THEN None
            ELSE Some(Take2(Tail(TrimLine(link[1][First(rates)])))))

\* nmcli.rs get_status. list, addr and link are the outputs of the three
\* commands, each an Option that is None when the command could not be run:
\* list holds the fields of the rows of `nmcli -t -f IN-USE,SSID,SIGNAL device
\* wifi list`, addr the fields of the rows of `nmcli -t -f IP4.ADDRESS device
\* show` (a field name as its tokens, an address as its parts between '/'),
\* link the lines of `iw dev <device> link` as their words.
get_status(list, addr, link) ==
    LET inuse == {i \in DOMAIN unwrap_or(list, <<>>) :
                     /\ Len(list[1][i]) >= 3
                     /\ Trim(list[1][i][1]) = "*"
                     /\ list[1][i][2] # ""}
        ssid == IF inuse = {} THEN None ELSE Some(list[1][First(inuse)][2])
        signal == IF inuse = {} THEN None ELSE ParseU8(list[1][First(inuse)][3])
        addrs == {i \in DOMAIN unwrap_or(addr, <<>>) :
                     /\ Len(addr[1][i]) >= 2
                     /\ StartsWith(addr[1][i][1], "IP4.ADDRESS")}
        rates == {i \in DOMAIN unwrap_or(link, <<>>) :
                     StartsWith(TrimLine(link[1][i]), "tx bitrate:")}
    IN  ConnectionStatus(
            ssid,
            signal,
            IF ssid = None \/ addrs = {} THEN None
            ELSE Some(Head(addr[1][First(addrs)][2])),
            IF ssid = None \/ rates = {} THEN None
            ELSE Some(Take2(Tail(TrimLine(link[1][First(rates)])))))

\* The rows the in-use listing can have, a short row among them.
StatusRows ==
    { <<"*", "home", <<"7", "0">>>>, <<" ", "cafe", <<"3", "0">>>>,
      <<"*", "", <<"3", "0">>>>, <<"*", "home", <<>>>>, <<"*", "home">> }
StatusLists == {None} \cup {Some(r) : r \in UNION {[1..n -> StatusRows] : n \in 0..MaxStatusRows}}

\* The rows `device show` can have.
AddressRows ==
    { << <<"IP4.ADDRESS", "[1]">>, <<"10.0.0.2", "24">> >>,
      << <<"IP4.ADDRESS", "[1]">> >>,
      << <<"IP4.GATEWAY">>, <<"10.0.0.1">> >> }
AddressLists == {None} \cup {Some(r) : r \in UNION {[1..n -> AddressRows] : n \in 0..MaxAddressRows}}

\* The lines `iw dev <device> link` can have.
LinkLines ==
    { <<"\t", "tx bitrate:", "144.4", "MBit/s", "MCS", "15">>,
      <<"tx bitrate:", "54.0">>,
      <<"\t", "signal:", "-50", "dBm">>,
      <<"Not connected.">> }
LinkOutputs == {None} \cup {Some(r) : r \in UNION {[1..n -> LinkLines] : n \in 0..MaxLinkLines}}

\* --------------------------------------------------------- tasks, results
\* event.rs Task: arg is the device, ssid or name; pw is the Option<String>.
Task(kind, arg, pw) == [kind |-> kind, arg |-> arg, pw |-> pw]
ScanTask == Task("Scan", Device, None)
ConnectTask(ssid, pw) == Task("Connect", ssid, pw)
DisconnectTask == Task("Disconnect", Device, None)
ForgetTask(name) == Task("Forget", name, None)
RefreshStatusTask == Task("RefreshStatus", Device, None)
RefreshSavedTask == Task("RefreshSaved", "", None)

\* event.rs TaskResult: ok/text are the Result<_, String>; the payload of the
\* variant is in nets, saved, status or ssid, the other fields are unused.
TaskResult(kind, ok, text, ssid, nets, saved, status) ==
    [kind |-> kind, ok |-> ok, text |-> text, ssid |-> ssid,
     nets |-> nets, saved |-> saved, status |-> status]
ScanComplete(ok, nets, text) == TaskResult("ScanComplete", ok, text, "", nets, <<>>, NoStatus)
ConnectComplete(ok, text, ssid) == TaskResult("ConnectComplete", ok, text, ssid, <<>>, <<>>, NoStatus)
DisconnectComplete(ok, text) == TaskResult("DisconnectComplete", ok, text, "", <<>>, <<>>, NoStatus)
ForgetComplete(ok, text) == TaskResult("ForgetComplete", ok, text, "", <<>>, <<>>, NoStatus)
StatusUpdate(status) == TaskResult("StatusUpdate", TRUE, <<>>, "", <<>>, <<>>, status)
SavedUpdate(ok, saved, text) == TaskResult("SavedUpdate", ok, text, "", <<>>, saved, NoStatus)

\* event.rs Event. The KeyEvent inside Event::Key is the user's input: nothing
\* reads it before handle_key does, and it is drawn there (HandleKey).
NoResult == TaskResult("", TRUE, <<>>, "", <<>>, <<>>, NoStatus)
KeyEvent == [type |-> "Key", res |-> NoResult]
TickEvent == [type |-> "Tick", res |-> NoResult]
TaskResultEvent(res) == [type |-> "TaskResult", res |-> res]

\* -------------------------------------------------------------- App state
\* app.rs Modal
NoModal == [kind |-> "None", name |-> "", text |-> <<>>]
PasswordInput == [kind |-> "PasswordInput", name |-> "", text |-> <<>>]
ConfirmDisconnect == [kind |-> "ConfirmDisconnect", name |-> "", text |-> <<>>]
ConfirmForget(name) == [kind |-> "ConfirmForget", name |-> name, text |-> <<>>]
Message(text) == [kind |-> "Message", name |-> "", text |-> text]

AlreadyConnected == <<"Already connected to this network.">>

\* Mutant of NewApp: the counter starts at zero.
NewApp_ZeroTicks ==
    [running |-> TRUE,
     view |-> "AvailableNetworks",
     modal |-> NoModal,
     bg_status |-> "Idle",
     networks |-> <<>>,
     saved |-> <<>>,
     status |-> NoStatus,
     net_index |-> 0,
     saved_index |-> 0,
     password |-> <<>>,
     password_visible |-> FALSE,
     password_target_ssid |-> "",
     ticks_since_scan |-> 0,
     spinner_frame |-> 0]

\* app.rs App::new
NewApp ==
    [running |-> TRUE,
     view |-> "AvailableNetworks",
     modal |-> NoModal,
     bg_status |-> "Idle",
     networks |-> <<>>,
     saved |-> <<>>,
     status |-> NoStatus,
     net_index |-> 0,
     saved_index |-> 0,
     password |-> <<>>,
     password_visible |-> FALSE,
     password_target_ssid |-> "",
     ticks_since_scan |-> AUTO_REFRESH_TICKS,
     spinner_frame |-> 0]

\* What a handler did: the new App state and the tasks it passed to
\* send_task, in order.
Ret(a, tasks) == [app |-> a, tasks |-> tasks]

\* app.rs App::start_scan
start_scan(a) ==
    Ret([a EXCEPT !.bg_status = "Scanning", !.ticks_since_scan = 0],
        <<ScanTask, RefreshStatusTask, RefreshSavedTask>>)

\* Mutant of handle_available_key: Enter sends the connect without a password signal.
handle_available_key_AbsentPassword(a, key) ==
    IF key.code \in {"Up", "k"} THEN
        Ret(IF a.net_index > 0 THEN [a EXCEPT !.net_index = @ - 1] ELSE a, <<>>)
    ELSE IF key.code \in {"Down", "j"} THEN
        Ret(IF a.networks # <<>> /\ a.net_index < Len(a.networks) - 1
            THEN [a EXCEPT !.net_index = @ + 1] ELSE a, <<>>)
    ELSE IF key.code = "Enter" THEN
        IF a.bg_status # "Idle" THEN Ret(a, <<>>)
        ELSE IF a.net_index < Len(a.networks) THEN
            LET net == a.networks[a.net_index + 1] IN
            IF net.in_use
            THEN Ret([a EXCEPT !.modal = Message(AlreadyConnected)], <<>>)
            ELSE Ret([a EXCEPT !.bg_status = "Connecting"],
                     <<ConnectTask(net.ssid, None)>>)
        ELSE Ret(a, <<>>)
    ELSE IF key.code \in {"d", "D"} THEN
        Ret(IF a.bg_status = "Idle" /\ a.status.ssid # None
            THEN [a EXCEPT !.modal = ConfirmDisconnect] ELSE a, <<>>)
    ELSE Ret(a, <<>>)

\* app.rs App::handle_available_key
handle_available_key(a, key) ==
    IF key.code \in {"Up", "k"} THEN
        Ret(IF a.net_index > 0 THEN [a EXCEPT !.net_index = @ - 1] ELSE a, <<>>)
    ELSE IF key.code \in {"Down", "j"} THEN
        Ret(IF a.networks # <<>> /\ a.net_index < Len(a.networks) - 1
            THEN [a EXCEPT !.net_index = @ + 1] ELSE a, <<>>)
    ELSE IF key.code = "Enter" THEN
        IF a.bg_status # "Idle" THEN Ret(a, <<>>)
        ELSE IF a.net_index < Len(a.networks) THEN
            LET net == a.networks[a.net_index + 1] IN
            IF net.in_use
            THEN Ret([a EXCEPT !.modal = Message(AlreadyConnected)], <<>>)
            ELSE Ret([a EXCEPT !.bg_status = "Connecting"],
                     <<ConnectTask(net.ssid, Some(<<>>))>>)
        ELSE Ret(a, <<>>)
    ELSE IF key.code \in {"d", "D"} THEN
        Ret(IF a.bg_status = "Idle" /\ a.status.ssid # None
            THEN [a EXCEPT !.modal = ConfirmDisconnect] ELSE a, <<>>)
    ELSE Ret(a, <<>>)

\* Mutant of handle_saved_key: Enter reconnects the active profile too.
handle_saved_key_NoActiveCheck(a, key) ==
    IF key.code \in {"Up", "k"} THEN
        Ret(IF a.saved_index > 0 THEN [a EXCEPT !.saved_index = @ - 1] ELSE a, <<>>)
    ELSE IF key.code \in {"Down", "j"} THEN
        Ret(IF a.saved # <<>> /\ a.saved_index < Len(a.saved) - 1
            THEN [a EXCEPT !.saved_index = @ + 1] ELSE a, <<>>)
    ELSE IF key.code = "Enter" THEN
        IF a.bg_status # "Idle" THEN Ret(a, <<>>)
        ELSE IF a.saved_index < Len(a.saved) THEN
            LET saved == a.saved[a.saved_index + 1] IN
            Ret([a EXCEPT !.bg_status = "Connecting"],
                <<ConnectTask(saved.name, None)>>)
        ELSE Ret(a, <<>>)
    ELSE IF key.code \in {"f", "F"} THEN
        IF a.bg_status # "Idle" THEN Ret(a, <<>>)
        ELSE IF a.saved_index < Len(a.saved)
        THEN Ret([a EXCEPT !.modal = ConfirmForget(a.saved[a.saved_index + 1].name)], <<>>)
        ELSE Ret(a, <<>>)
    ELSE IF key.code \in {"d", "D"} THEN
        Ret(IF a.bg_status = "Idle" /\ a.status.ssid # None
            THEN [a EXCEPT !.modal = ConfirmDisconnect] ELSE a, <<>>)
    ELSE Ret(a, <<>>)

\* Mutant of handle_saved_key: f does not look at bg_status.
handle_saved_key_ForgetWhileBusy(a, key) ==
    IF key.code \in {"Up", "k"} THEN
        Ret(IF a.saved_index > 0 THEN [a EXCEPT !.saved_index = @ - 1] ELSE a, <<>>)
    ELSE IF key.code \in {"Down", "j"} THEN
        Ret(IF a.saved # <<>> /\ a.saved_index < Len(a.saved) - 1
            THEN [a EXCEPT !.saved_index = @ + 1] ELSE a, <<>>)
    ELSE IF key.code = "Enter" THEN
        IF a.bg_status # "Idle" THEN Ret(a, <<>>)
        ELSE IF a.saved_index < Len(a.saved) THEN
            LET saved == a.saved[a.saved_index + 1] IN
            IF saved.active
            THEN Ret([a EXCEPT !.modal = Message(AlreadyConnected)], <<>>)
            ELSE Ret([a EXCEPT !.bg_status = "Connecting"],
                     <<ConnectTask(saved.name, None)>>)
        ELSE Ret(a, <<>>)
    ELSE IF key.code \in {"f", "F"} THEN
        IF a.saved_index < Len(a.saved)
        THEN Ret([a EXCEPT !.modal = ConfirmForget(a.saved[a.saved_index + 1].name)], <<>>)
        ELSE Ret(a, <<>>)
    ELSE IF key.code \in {"d", "D"} THEN
        Ret(IF a.bg_status = "Idle" /\ a.status.ssid # None
            THEN [a EXCEPT !.modal = ConfirmDisconnect] ELSE a, <<>>)
    ELSE Ret(a, <<>>)

\* app.rs App::handle_saved_key
handle_saved_key(a, key) ==
    IF key.code \in {"Up", "k"} THEN
        Ret(IF a.saved_index > 0 THEN [a EXCEPT !.saved_index = @ - 1] ELSE a, <<>>)
    ELSE IF key.code \in {"Down", "j"} THEN
        Ret(IF a.saved # <<>> /\ a.saved_index < Len(a.saved) - 1
            THEN [a EXCEPT !.saved_index = @ + 1] ELSE a, <<>>)
    ELSE IF key.code = "Enter" THEN
        IF a.bg_status # "Idle" THEN Ret(a, <<>>)
        ELSE IF a.saved_index < Len(a.saved) THEN
            LET saved == a.saved[a.saved_index + 1] IN
            IF saved.active
            THEN Ret([a EXCEPT !.modal = Message(AlreadyConnected)], <<>>)
            ELSE Ret([a EXCEPT !.bg_status = "Connecting"],
                     <<ConnectTask(saved.name, None)>>)
        ELSE Ret(a, <<>>)
    ELSE IF key.code \in {"f", "F"} THEN
        IF a.bg_status # "Idle" THEN Ret(a, <<>>)
        ELSE IF a.saved_index < Len(a.saved)
        THEN Ret([a EXCEPT !.modal = ConfirmForget(a.saved[a.saved_index + 1].name)], <<>>)
        ELSE Ret(a, <<>>)
    ELSE IF key.code \in {"d", "D"} THEN
        Ret(IF a.bg_status = "Idle" /\ a.status.ssid # None
            THEN [a EXCEPT !.modal = ConfirmDisconnect] ELSE a, <<>>)
    ELSE Ret(a, <<>>)

\* String::pop
Pop(s) == IF s = <<>> THEN s ELSE SubSeq(s, 1, Len(s) - 1)

\* Mutant of handle_modal_key: y forgets the profile selected when the key arrives.
handle_modal_key_ForgetsSelected(a, key) ==
    IF a.modal.kind = "PasswordInput" THEN
        IF key.code = "Esc" THEN
            Ret([a EXCEPT !.modal = NoModal, !.password = <<>>], <<>>)
        ELSE IF key.code = "Enter" THEN
            Ret([a EXCEPT !.modal = NoModal, !.bg_status = "Connecting"],
                <<ConnectTask(a.password_target_ssid, Some(a.password))>>)
        ELSE IF key.code = "Backspace" THEN
            Ret([a EXCEPT !.password = Pop(@)], <<>>)
        ELSE IF key.code = "Tab" THEN
            Ret([a EXCEPT !.password_visible = ~@], <<>>)
        ELSE IF key.code \in KeyChars THEN
            Ret([a EXCEPT !.password = Append(@, key.code)], <<>>)
        ELSE Ret(a, <<>>)
    ELSE IF a.modal.kind = "ConfirmDisconnect" THEN
        IF key.code \in {"y", "Y"}
        THEN Ret([a EXCEPT !.modal = NoModal, !.bg_status = "Disconnecting"],
                 <<DisconnectTask>>)
        ELSE Ret([a EXCEPT !.modal = NoModal], <<>>)
    ELSE IF a.modal.kind = "ConfirmForget" THEN
        IF key.code \in {"y", "Y"}
        THEN Ret([a EXCEPT !.modal = NoModal, !.bg_status = "Forgetting"],
                 <<ForgetTask(IF a.saved_index < Len(a.saved)
                              THEN a.saved[a.saved_index + 1].name ELSE "")>>)
        ELSE Ret([a EXCEPT !.modal = NoModal], <<>>)
    ELSE Ret([a EXCEPT !.modal = NoModal], <<>>)

\* Mutant of handle_modal_key: only the lower-case y confirms a disconnect.
handle_modal_key_LowercaseOnly(a, key) ==
    IF a.modal.kind = "PasswordInput" THEN
        IF key.code = "Esc" THEN
            Ret([a EXCEPT !.modal = NoModal, !.password = <<>>], <<>>)
        ELSE IF key.code = "Enter" THEN
            Ret([a EXCEPT !.modal = NoModal, !.bg_status = "Connecting"],
                <<ConnectTask(a.password_target_ssid, Some(a.password))>>)
        ELSE IF key.code = "Backspace" THEN
            Ret([a EXCEPT !.password = Pop(@)], <<>>)
        ELSE IF key.code = "Tab" THEN
            Ret([a EXCEPT !.password_visible = ~@], <<>>)
        ELSE IF key.code \in KeyChars THEN
            Ret([a EXCEPT !.password = Append(@, key.code)], <<>>)
        ELSE Ret(a, <<>>)
    ELSE IF a.modal.kind = "ConfirmDisconnect" THEN
        IF key.code = "y"
        THEN Ret([a EXCEPT !.modal = NoModal, !.bg_status = "Disconnecting"],
                 <<DisconnectTask>>)
        ELSE Ret([a EXCEPT !.modal = NoModal], <<>>)
    ELSE IF a.modal.kind = "ConfirmForget" THEN
        IF key.code \in {"y", "Y"}
        THEN Ret([a EXCEPT !.modal = NoModal, !.bg_status = "Forgetting"],
                 <<ForgetTask(a.modal.name)>>)
        ELSE Ret([a EXCEPT !.modal = NoModal], <<>>)
    ELSE Ret([a EXCEPT !.modal = NoModal], <<>>)

\* app.rs App::handle_modal_key
handle_modal_key(a, key) ==
    IF a.modal.kind = "PasswordInput" THEN
        IF key.code = "Esc" THEN
            Ret([a EXCEPT !.modal = NoModal, !.password = <<>>], <<>>)
        ELSE IF key.code = "Enter" THEN
            Ret([a EXCEPT !.modal = NoModal, !.bg_status = "Connecting"],
                <<ConnectTask(a.password_target_ssid, Some(a.password))>>)
        ELSE IF key.code = "Backspace" THEN
            Ret([a EXCEPT !.password = Pop(@)], <<>>)
        ELSE IF key.code = "Tab" THEN
            Ret([a EXCEPT !.password_visible = ~@], <<>>)
        ELSE IF key.code \in KeyChars THEN
            Ret([a EXCEPT !.password = Append(@, key.code)], <<>>)
        ELSE Ret(a, <<>>)
    ELSE IF a.modal.kind = "ConfirmDisconnect" THEN
        IF key.code \in {"y", "Y"}
        THEN Ret([a EXCEPT !.modal = NoModal, !.bg_status = "Disconnecting"],
                 <<DisconnectTask>>)
        ELSE Ret([a EXCEPT !.modal = NoModal], <<>>)
    ELSE IF a.modal.kind = "ConfirmForget" THEN
        IF key.code \in {"y", "Y"}
        THEN Ret([a EXCEPT !.modal = NoModal, !.bg_status = "Forgetting"],
                 <<ForgetTask(a.modal.name)>>)
        ELSE Ret([a EXCEPT !.modal = NoModal], <<>>)
    ELSE Ret([a EXCEPT !.modal = NoModal], <<>>)

\* Mutant of handle_key: the global keys are matched before the modal.
handle_key_GlobalFirst(a, key) ==
    IF key.ctrl /\ key.code = "c" THEN
        Ret([a EXCEPT !.running = FALSE], <<>>)
    ELSE IF key.code \in {"q", "Q"} THEN
        Ret([a EXCEPT !.running = FALSE], <<>>)
    ELSE IF key.code \in {"Tab", "BackTab"} THEN
        Ret([a EXCEPT !.view = IF @ = "AvailableNetworks" THEN "SavedNetworks"
                                ELSE "AvailableNetworks"], <<>>)
    ELSE IF key.code \in {"r", "R"} THEN
        IF a.bg_status = "Idle" THEN start_scan(a) ELSE Ret(a, <<>>)
    ELSE IF a.modal.kind # "None" THEN
        handle_modal_key(a, key)
    ELSE IF a.view = "AvailableNetworks" THEN handle_available_key(a, key)
    ELSE handle_saved_key(a, key)

\* Mutant of handle_key: the modal is given the key before Ctrl+C is looked for.
handle_key_ModalFirst(a, key) ==
    IF a.modal.kind # "None" THEN
        handle_modal_key(a, key)
    ELSE IF key.ctrl /\ key.code = "c" THEN
        Ret([a EXCEPT !.running = FALSE], <<>>)
    ELSE IF key.code \in {"q", "Q"} THEN
        Ret([a EXCEPT !.running = FALSE], <<>>)
    ELSE IF key.code \in {"Tab", "BackTab"} THEN
        Ret([a EXCEPT !.view = IF @ = "AvailableNetworks" THEN "SavedNetworks"
                                ELSE "AvailableNetworks"], <<>>)
    ELSE IF key.code \in {"r", "R"} THEN
        IF a.bg_status = "Idle" THEN start_scan(a) ELSE Ret(a, <<>>)
    ELSE IF a.view = "AvailableNetworks" THEN handle_available_key(a, key)
    ELSE handle_saved_key(a, key)

\* Mutant of handle_key: Esc quits too when no modal is open.
handle_key_EscQuits(a, key) ==
    IF key.ctrl /\ key.code = "c" THEN
        Ret([a EXCEPT !.running = FALSE], <<>>)
    ELSE IF a.modal.kind # "None" THEN
        handle_modal_key(a, key)
    ELSE IF key.code \in {"q", "Q", "Esc"} THEN
        Ret([a EXCEPT !.running = FALSE], <<>>)
    ELSE IF key.code \in {"Tab", "BackTab"} THEN
        Ret([a EXCEPT !.view = IF @ = "AvailableNetworks" THEN "SavedNetworks"
                                ELSE "AvailableNetworks"], <<>>)
    ELSE IF key.code \in {"r", "R"} THEN
        IF a.bg_status = "Idle" THEN start_scan(a) ELSE Ret(a, <<>>)
    ELSE IF a.view = "AvailableNetworks" THEN handle_available_key(a, key)
    ELSE handle_saved_key(a, key)

\* app.rs App::handle_key
handle_key(a, key) ==
    IF key.ctrl /\ key.code = "c" THEN
        Ret([a EXCEPT !.running = FALSE], <<>>)
    ELSE IF a.modal.kind # "None" THEN
        handle_modal_key(a, key)
    ELSE IF key.code \in {"q", "Q"} THEN
        Ret([a EXCEPT !.running = FALSE], <<>>)
    ELSE IF key.code \in {"Tab", "BackTab"} THEN
        Ret([a EXCEPT !.view = IF @ = "AvailableNetworks" THEN "SavedNetworks"
                                ELSE "AvailableNetworks"], <<>>)
    ELSE IF key.code \in {"r", "R"} THEN
        IF a.bg_status = "Idle" THEN start_scan(a) ELSE Ret(a, <<>>)
    ELSE IF a.view = "AvailableNetworks" THEN handle_available_key(a, key)
    ELSE handle_saved_key(a, key)

\* Mutant of handle_tick: the threshold test is > instead of >=.
handle_tick_Strict(a) ==
    LET t == [a EXCEPT !.spinner_frame = (@ + 1) % 4, !.ticks_since_scan = @ + 1] IN
    IF t.ticks_since_scan > AUTO_REFRESH_TICKS /\ t.bg_status = "Idle"
    THEN start_scan(t)
    ELSE Ret(t, <<>>)

\* app.rs App::handle_tick
handle_tick(a) ==
    LET t == [a EXCEPT !.spinner_frame = (@ + 1) % 4, !.ticks_since_scan = @ + 1] IN
    IF t.ticks_since_scan >= AUTO_REFRESH_TICKS /\ t.bg_status = "Idle"
    THEN start_scan(t)
    ELSE Ret(t, <<>>)

\* The index clamp applied when a list is replaced.
Clamp(index, list) ==
    IF index >= Len(list) /\ list # <<>> THEN Len(list) - 1 ELSE index

\* Mutant of handle_task_result: a failed scan leaves bg_status as it is.
handle_task_result_ScanErrStaysBusy(a, result) ==
    IF result.kind = "ScanComplete" THEN
        IF result.ok
        THEN Ret([a EXCEPT !.networks = result.nets,
                           !.net_index = Clamp(@, result.nets),
                           !.bg_status = "Idle"], <<>>)
        ELSE Ret([a EXCEPT !.modal = Message(result.text)], <<>>)
    ELSE IF result.kind = "ConnectComplete" THEN
        IF result.ok
        THEN Ret([a EXCEPT !.bg_status = "Idle", !.modal = Message(result.text),
                           !.ticks_since_scan = AUTO_REFRESH_TICKS], <<>>)
        ELSE IF error_needs_password(result.text)
        THEN Ret([a EXCEPT !.bg_status = "Idle", !.password = <<>>,
                           !.password_visible = FALSE,
                           !.password_target_ssid = result.ssid,
                           !.modal = PasswordInput], <<>>)
        ELSE Ret([a EXCEPT !.bg_status = "Idle", !.modal = Message(result.text)], <<>>)
    ELSE IF result.kind = "DisconnectComplete" THEN
        IF result.ok
        THEN Ret([a EXCEPT !.bg_status = "Idle", !.modal = Message(result.text),
                           !.ticks_since_scan = AUTO_REFRESH_TICKS], <<>>)
        ELSE Ret([a EXCEPT !.bg_status = "Idle", !.modal = Message(result.text)], <<>>)
    ELSE IF result.kind = "ForgetComplete" THEN
        IF result.ok
        THEN Ret([a EXCEPT !.bg_status = "Idle", !.modal = Message(result.text),
                           !.ticks_since_scan = AUTO_REFRESH_TICKS], <<>>)
        ELSE Ret([a EXCEPT !.bg_status = "Idle", !.modal = Message(result.text)], <<>>)
    ELSE IF result.kind = "StatusUpdate" THEN
        Ret([a EXCEPT !.status = result.status], <<>>)
    ELSE IF result.kind = "SavedUpdate" /\ result.ok THEN
        Ret([a EXCEPT !.saved = result.saved, !.saved_index = Clamp(@, result.saved)], <<>>)
    ELSE Ret(a, <<>>)

\* Mutant of handle_task_result: a successful connect leaves the counter alone.
handle_task_result_NoForcedRefresh(a, result) ==
    IF result.kind = "ScanComplete" THEN
        IF result.ok
        THEN Ret([a EXCEPT !.networks = result.nets,
                           !.net_index = Clamp(@, result.nets),
                           !.bg_status = "Idle"], <<>>)
        ELSE Ret([a EXCEPT !.bg_status = "Idle", !.modal = Message(result.text)], <<>>)
    ELSE IF result.kind = "ConnectComplete" THEN
        IF result.ok
        THEN Ret([a EXCEPT !.bg_status = "Idle", !.modal = Message(result.text)], <<>>)
        ELSE IF error_needs_password(result.text)
        THEN Ret([a EXCEPT !.bg_status = "Idle", !.password = <<>>,
                           !.password_visible = FALSE,
                           !.password_target_ssid = result.ssid,
                           !.modal = PasswordInput], <<>>)
        ELSE Ret([a EXCEPT !.bg_status = "Idle", !.modal = Message(result.text)], <<>>)
    ELSE IF result.kind = "DisconnectComplete" THEN
        IF result.ok
        THEN Ret([a EXCEPT !.bg_status = "Idle", !.modal = Message(result.text),
                           !.ticks_since_scan = AUTO_REFRESH_TICKS], <<>>)
        ELSE Ret([a EXCEPT !.bg_status = "Idle", !.modal = Message(result.text)], <<>>)
    ELSE IF result.kind = "ForgetComplete" THEN
        IF result.ok
        THEN Ret([a EXCEPT !.bg_status = "Idle", !.modal = Message(result.text),
                           !.ticks_since_scan = AUTO_REFRESH_TICKS], <<>>)
        ELSE Ret([a EXCEPT !.bg_status = "Idle", !.modal = Message(result.text)], <<>>)
    ELSE IF result.kind = "StatusUpdate" THEN
        Ret([a EXCEPT !.status = result.status], <<>>)
    ELSE IF result.kind = "SavedUpdate" /\ result.ok THEN
        Ret([a EXCEPT !.saved = result.saved, !.saved_index = Clamp(@, result.saved)], <<>>)
    ELSE Ret(a, <<>>)

\* Mutant of handle_task_result: the password buffer is not cleared when the prompt opens.
handle_task_result_KeepsPassword(a, result) ==
    IF result.kind = "ScanComplete" THEN
        IF result.ok
        THEN Ret([a EXCEPT !.networks = result.nets,
                           !.net_index = Clamp(@, result.nets),
                           !.bg_status = "Idle"], <<>>)
        ELSE Ret([a EXCEPT !.bg_status = "Idle", !.modal = Message(result.text)], <<>>)
    ELSE IF result.kind = "ConnectComplete" THEN
        IF result.ok
        THEN Ret([a EXCEPT !.bg_status = "Idle", !.modal = Message(result.text),
                           !.ticks_since_scan = AUTO_REFRESH_TICKS], <<>>)
        ELSE IF error_needs_password(result.text)
        THEN Ret([a EXCEPT !.bg_status = "Idle",
                           !.password_visible = FALSE,
                           !.password_target_ssid = result.ssid,
                           !.modal = PasswordInput], <<>>)
        ELSE Ret([a EXCEPT !.bg_status = "Idle", !.modal = Message(result.text)], <<>>)
    ELSE IF result.kind = "DisconnectComplete" THEN
        IF result.ok
        THEN Ret([a EXCEPT !.bg_status = "Idle", !.modal = Message(result.text),
                           !.ticks_since_scan = AUTO_REFRESH_TICKS], <<>>)
        ELSE Ret([a EXCEPT !.bg_status = "Idle", !.modal = Message(result.text)], <<>>)
    ELSE IF result.kind = "ForgetComplete" THEN
        IF result.ok
        THEN Ret([a EXCEPT !.bg_status = "Idle", !.modal = Message(result.text),
                           !.ticks_since_scan = AUTO_REFRESH_TICKS], <<>>)
        ELSE Ret([a EXCEPT !.bg_status = "Idle", !.modal = Message(result.text)], <<>>)
    ELSE IF result.kind = "StatusUpdate" THEN
        Ret([a EXCEPT !.status = result.status], <<>>)
    ELSE IF result.kind = "SavedUpdate" /\ result.ok THEN
        Ret([a EXCEPT !.saved = result.saved, !.saved_index = Clamp(@, result.saved)], <<>>)
    ELSE Ret(a, <<>>)

\* Mutant of handle_task_result: a failed saved listing is shown like the other errors.
handle_task_result_SavedErrMessage(a, result) ==
    IF result.kind = "ScanComplete" THEN
        IF result.ok
        THEN Ret([a EXCEPT !.networks = result.nets,
                           !.net_index = Clamp(@, result.nets),
                           !.bg_status = "Idle"], <<>>)
        ELSE Ret([a EXCEPT !.bg_status = "Idle", !.modal = Message(result.text)], <<>>)
    ELSE IF result.kind = "ConnectComplete" THEN
        IF result.ok
        THEN Ret([a EXCEPT !.bg_status = "Idle", !.modal = Message(result.text),
                           !.ticks_since_scan = AUTO_REFRESH_TICKS], <<>>)
        ELSE IF error_needs_password(result.text)
        THEN Ret([a EXCEPT !.bg_status = "Idle", !.password = <<>>,
                           !.password_visible = FALSE,
                           !.password_target_ssid = result.ssid,
                           !.modal = PasswordInput], <<>>)
        ELSE Ret([a EXCEPT !.bg_status = "Idle", !.modal = Message(result.text)], <<>>)
    ELSE IF result.kind = "DisconnectComplete" THEN
        IF result.ok
        THEN Ret([a EXCEPT !.bg_status = "Idle", !.modal = Message(result.text),
                           !.ticks_since_scan = AUTO_REFRESH_TICKS], <<>>)
        ELSE Ret([a EXCEPT !.bg_status = "Idle", !.modal = Message(result.text)], <<>>)
    ELSE IF result.kind = "ForgetComplete" THEN
        IF result.ok
        THEN Ret([a EXCEPT !.bg_status = "Idle", !.modal = Message(result.text),
                           !.ticks_since_scan = AUTO_REFRESH_TICKS], <<>>)
        ELSE Ret([a EXCEPT !.bg_status = "Idle", !.modal = Message(result.text)], <<>>)
    ELSE IF result.kind = "StatusUpdate" THEN
        Ret([a EXCEPT !.status = result.status], <<>>)
    ELSE IF result.kind = "SavedUpdate" /\ result.ok THEN
        Ret([a EXCEPT !.saved = result.saved, !.saved_index = Clamp(@, result.saved)], <<>>)
    ELSE Ret([a EXCEPT !.modal = Message(result.text)], <<>>)

\* app.rs App::handle_task_result
handle_task_result(a, result) ==
    IF result.kind = "ScanComplete" THEN
        IF result.ok
        THEN Ret([a EXCEPT !.networks = result.nets,
                           !.net_index = Clamp(@, result.nets),
                           !.bg_status = "Idle"], <<>>)
        ELSE Ret([a EXCEPT !.bg_status = "Idle", !.modal = Message(result.text)], <<>>)
    ELSE IF result.kind = "ConnectComplete" THEN
        IF result.ok
        THEN Ret([a EXCEPT !.bg_status = "Idle", !.modal = Message(result.text),
                           !.ticks_since_scan = AUTO_REFRESH_TICKS], <<>>)
        ELSE IF error_needs_password(result.text)
        THEN Ret([a EXCEPT !.bg_status = "Idle", !.password = <<>>,
                           !.password_visible = FALSE,
                           !.password_target_ssid = result.ssid,
                           !.modal = PasswordInput], <<>>)
        ELSE Ret([a EXCEPT !.bg_status = "Idle", !.modal = Message(result.text)], <<>>)
    ELSE IF result.kind = "DisconnectComplete" THEN
        IF result.ok
        THEN Ret([a EXCEPT !.bg_status = "Idle", !.modal = Message(result.text),
                           !.ticks_since_scan = AUTO_REFRESH_TICKS], <<>>)
        ELSE Ret([a EXCEPT !.bg_status = "Idle", !.modal = Message(result.text)], <<>>)
    ELSE IF result.kind = "ForgetComplete" THEN
        IF result.ok
        THEN Ret([a EXCEPT !.bg_status = "Idle", !.modal = Message(result.text),
                           !.ticks_since_scan = AUTO_REFRESH_TICKS], <<>>)
        ELSE Ret([a EXCEPT !.bg_status = "Idle", !.modal = Message(result.text)], <<>>)
    ELSE IF result.kind = "StatusUpdate" THEN
        Ret([a EXCEPT !.status = result.status], <<>>)
    ELSE IF result.kind = "SavedUpdate" /\ result.ok THEN
        Ret([a EXCEPT !.saved = result.saved, !.saved_index = Clamp(@, result.saved)], <<>>)
    ELSE Ret(a, <<>>)

\* ------------------------------------------------------------ the system
VARIABLES
    app,        \* the App (app.rs), owned by the main thread
    task_q,     \* the task channel: tasks sent with send_task, not yet taken
    bus,        \* the event channel: events published, not yet received
    cur,        \* worker thread: the task it is executing, as an Option
    ticks_emitted, \* keyboard/tick thread: Tick events published so far
    keys_emitted,  \* keyboard/tick thread: Key events published so far
    pending,    \* history: tasks sent whose result the App has not handled
    harness     \* a call of parse_terse_line on its own: its input and its loop

vars == <<app, task_q, bus, cur, ticks_emitted, keys_emitted, pending, harness>>

\* No call of the parser is followed.
NoHarness == [fields |-> <<>>, st |-> ParseState(<<>>, <<>>, <<>>), out |-> <<>>, pc |-> "idle"]

Init ==
    /\ app = NewApp
    /\ task_q = <<>>
    /\ bus = <<>>
    /\ cur = None
    /\ ticks_emitted = 0
    /\ keys_emitted = 0
    /\ pending = <<>>
    /\ harness = NoHarness

\* --- worker thread (event.rs, second thread::spawn)
\* The results the adapter can give for a task.
Outcomes(task) ==
    IF task.kind = "Scan" THEN
        {ScanComplete(TRUE, l, <<>>) : l \in ScanLists}
        \cup {ScanComplete(FALSE, <<>>, friendly_error(e)) : e \in OtherStderr}
    ELSE IF task.kind = "Connect" THEN
        {ConnectComplete(TRUE, <<"Connected to ", task.arg>>, task.arg)}
        \cup {ConnectComplete(FALSE, friendly_error(e), task.arg) : e \in ConnectStderr}
    ELSE IF task.kind = "Disconnect" THEN
        {DisconnectComplete(TRUE, <<"Disconnected.">>)}
        \cup {DisconnectComplete(FALSE, friendly_error(e)) : e \in OtherStderr}
    ELSE IF task.kind = "Forget" THEN
        {ForgetComplete(TRUE, <<"Forgot network '", task.arg, "'.">>)}
        \cup {ForgetComplete(FALSE, friendly_error(e)) : e \in OtherStderr}
    ELSE IF task.kind = "RefreshStatus" THEN
        {StatusUpdate(st) : st \in Statuses}
    ELSE
        {SavedUpdate(TRUE, l, <<>>) : l \in SavedLists}
        \cup {SavedUpdate(FALSE, <<>>, friendly_error(e)) : e \in OtherStderr}

\* Mutant of WorkerTake: the worker takes the newest task of the queue.
WorkerTake_Newest ==
    /\ app.running
    /\ cur = None
    /\ task_q # <<>>
    /\ cur' = Some(task_q[Len(task_q)])
    /\ task_q' = SubSeq(task_q, 1, Len(task_q) - 1)
    /\ UNCHANGED <<app, bus, ticks_emitted, keys_emitted, pending, harness>>

\* `for task in task_rx`: the worker takes the next task when it has none.
WorkerTake ==
    /\ app.running
    /\ cur = None
    /\ task_q # <<>>
    /\ cur' = Some(Head(task_q))
    /\ task_q' = Tail(task_q)
    /\ UNCHANGED <<app, bus, ticks_emitted, keys_emitted, pending, harness>>

\* Mutant of WorkerPublish: the result is put in front of the waiting events.
WorkerPublish_Front ==
    /\ app.running
    /\ cur # None
    /\ \E r \in Outcomes(cur[1]) : bus' = <<TaskResultEvent(r)>> \o bus
    /\ cur' = None
    /\ UNCHANGED <<app, task_q, ticks_emitted, keys_emitted, pending, harness>>

\* The adapter call returns and the worker publishes its result.
WorkerPublish ==
    /\ app.running
    /\ cur # None
    /\ \E r \in Outcomes(cur[1]) : bus' = Append(bus, TaskResultEvent(r))
    /\ cur' = None
    /\ UNCHANGED <<app, task_q, ticks_emitted, keys_emitted, pending, harness>>

\* --- keyboard + tick thread (event.rs, first thread::spawn)
MuxPending == Cardinality({i \in DOMAIN bus : bus[i].type # "TaskResult"})

\* The user types key k only while the password buffer has room for it.
CanType(a, k) ==
    a.modal.kind = "PasswordInput" /\ k.code \in KeyChars /\ ~(k.ctrl /\ k.code = "c")
        => Len(a.password) < MaxPwLen

\* One pass of the loop in which event::poll returns true and event::read
\* gives a key: the key is published.
MuxKey ==
    /\ app.running
    /\ MuxPending < MaxMuxPending
    /\ keys_emitted < MaxKeys
    /\ bus' = Append(bus, KeyEvent)
    /\ keys_emitted' = keys_emitted + 1
    /\ UNCHANGED <<app, task_q, cur, ticks_emitted, pending, harness>>

\* One pass of the loop in which last_tick.elapsed() >= tick_rate: a Tick is
\* published and the interval restarts.
MuxTick ==
    /\ app.running
    /\ MuxPending < MaxMuxPending
    /\ ticks_emitted < MaxTicks
    /\ bus' = Append(bus, TickEvent)
    /\ ticks_emitted' = ticks_emitted + 1
    /\ UNCHANGED <<app, task_q, cur, keys_emitted, pending, harness>>

\* --- main thread: receive one event and run its handler
\* EventLoop::send_task for each task the handler sent, in order.
Step(r) ==
    /\ app' = r.app
    /\ task_q' = task_q \o r.tasks
    /\ bus' = Tail(bus)
    /\ UNCHANGED <<cur, ticks_emitted, keys_emitted, harness>>

\* EventLoop::try_recv gives an event while the App is running.
Received(type) == app.running /\ bus # <<>> /\ Head(bus).type = type

HandleKey ==
    /\ Received("Key")
    /\ \E k \in Keys :
        /\ CanType(app, k)
        /\ LET r == handle_key(app, k) IN
            /\ Step(r)
            /\ pending' = pending \o r.tasks

HandleTick ==
    /\ Received("Tick")
    /\ LET r == handle_tick(app) IN
        /\ Step(r)
        /\ pending' = pending \o r.tasks

HandleTaskResult ==
    /\ Received("TaskResult")
    /\ LET r == handle_task_result(app, Head(bus).res) IN
        /\ Step(r)
        /\ pending' = Tail(pending) \o r.tasks

Next ==
    \/ MuxKey
    \/ MuxTick
    \/ WorkerTake
    \/ WorkerPublish
    \/ HandleKey
    \/ HandleTick
    \/ HandleTaskResult

Spec == Init /\ [][Next]_vars

\* --- the auto-refresh timer on its own: no keys, and as many ticks as it
\* takes ticks_since_scan to count from 0 up to the threshold and past it.
\* Tick intervals end while no request is unanswered or while the worker is
\* in the scan (the rescan takes seconds); the two short queries that follow
\* it are answered within the interval.
TimerTick ==
    /\ app.running
    /\ MuxPending < MaxMuxPending
    /\ pending = <<>> \/ (cur # None /\ cur[1].kind = "Scan")
    /\ app.ticks_since_scan + MuxPending < MaxTickCount
    /\ bus' = Append(bus, TickEvent)
    /\ UNCHANGED <<app, task_q, cur, ticks_emitted, keys_emitted, pending, harness>>

NextTimer ==
    \/ TimerTick
    \/ WorkerTake
    \/ WorkerPublish
    \/ HandleTick
    \/ HandleTaskResult

SpecTimer == Init /\ [][NextTimer]_vars

\* --- the program with its threads scheduled: the worker takes a waiting task
\* and every adapter call returns, and the main loop handles a waiting event.
\* The keyboard + tick thread is free to publish or not.
Fairness ==
    /\ WF_vars(WorkerTake)
    /\ WF_vars(WorkerPublish)
    /\ WF_vars(HandleKey)
    /\ WF_vars(HandleTick)
    /\ WF_vars(HandleTaskResult)

SpecFair == Init /\ [][Next]_vars /\ Fairness

\* --- the request queue followed further: the user types only the keys that
\* connect, disconnect and answer a modal, and of the ticks only those are
\* followed that find a refresh due (the others only count).
QueueKeys == {Key(c, FALSE) : c \in {"Enter", "d", "y", "x"}}

QueueMuxKey ==
    /\ app.running
    /\ MuxPending < MaxMuxPending
    /\ keys_emitted < MaxQueueKeys
    /\ bus' = Append(bus, KeyEvent)
    /\ keys_emitted' = keys_emitted + 1
    /\ UNCHANGED <<app, task_q, cur, ticks_emitted, pending, harness>>

QueueMuxTick ==
    /\ app.running
    /\ MuxPending < MaxMuxPending
    /\ ticks_emitted < MaxRefreshes
    /\ app.ticks_since_scan >= AUTO_REFRESH_TICKS - 1
    /\ app.bg_status = "Idle"
    /\ bus' = Append(bus, TickEvent)
    /\ ticks_emitted' = ticks_emitted + 1
    /\ UNCHANGED <<app, task_q, cur, keys_emitted, pending, harness>>

QueueHandleKey ==
    /\ Received("Key")
    /\ \E k \in QueueKeys :
        /\ CanType(app, k)
        /\ LET r == handle_key(app, k) IN
            /\ Step(r)
            /\ pending' = pending \o r.tasks

NextQueue ==
    \/ QueueMuxKey
    \/ QueueMuxTick
    \/ WorkerTake
    \/ WorkerPublish
    \/ QueueHandleKey
    \/ HandleTick
    \/ HandleTaskResult

SpecQueue == Init /\ [][NextQueue]_vars

\* --- parse_terse_line on its own: a record of field values is written as a
\* terse line and the parser is run on the line, one character pass at a time.
InitParse ==
    /\ app = NewApp
    /\ task_q = <<>>
    /\ bus = <<>>
    /\ cur = None
    /\ ticks_emitted = 0
    /\ keys_emitted = 0
    /\ pending = <<>>
    /\ \E fs \in FieldSeqs :
          harness = [fields |-> fs, st |-> ParseState(TerseLine(fs), <<>>, <<>>),
                     out |-> <<>>, pc |-> "loop"]

\* One pass of the while loop.
ParseChar ==
    /\ harness.pc = "loop"
    /\ harness.st.rest # <<>>
    /\ harness' = [harness EXCEPT !.st = parse_step(@)]
    /\ UNCHANGED <<app, task_q, bus, cur, ticks_emitted, keys_emitted, pending>>

\* chars.next() is None: the last field is pushed and the fields are returned.
ParseEnd ==
    /\ harness.pc = "loop"
    /\ harness.st.rest = <<>>
    /\ harness' = [harness EXCEPT !.out = Append(harness.st.fields, harness.st.current),
                                  !.pc = "done"]
    /\ UNCHANGED <<app, task_q, bus, cur, ticks_emitted, keys_emitted, pending>>

NextParse ==
    \/ ParseChar
    \/ ParseEnd

SpecParse == InitParse /\ [][NextParse]_vars

\* --- parse_terse_line on any line: the same loop, started on a raw line.
InitLine ==
    /\ app = NewApp
    /\ task_q = <<>>
    /\ bus = <<>>
    /\ cur = None
    /\ ticks_emitted = 0
    /\ keys_emitted = 0
    /\ pending = <<>>
    /\ \E l \in Lines :
          harness = [line |-> l, st |-> ParseState(l, <<>>, <<>>),
                     out |-> <<>>, pc |-> "loop"]

SpecLine == InitLine /\ [][NextParse]_vars

\* --- scan_networks on its own, from the rows of the listing to the list.
InitScan ==
    /\ app = NewApp
    /\ task_q = <<>>
    /\ bus = <<>>
    /\ cur = None
    /\ ticks_emitted = 0
    /\ keys_emitted = 0
    /\ pending = <<>>
    /\ \E rs \in RowSeqs :
          harness = [rows |-> rs, rest |-> rs, best |-> <<>>, networks |-> <<>>,
                     out |-> <<>>, pc |-> "rows"]

\* One pass of `for line in stdout.lines()`.
ScanRow ==
    /\ harness.pc = "rows"
    /\ harness.rest # <<>>
    /\ harness' = [harness EXCEPT !.best = scan_step(@, Head(harness.rest)),
                                  !.rest = Tail(@)]
    /\ UNCHANGED <<app, task_q, bus, cur, ticks_emitted, keys_emitted, pending>>

\* best.into_values().collect()
ScanCollect ==
    /\ harness.pc = "rows"
    /\ harness.rest = <<>>
    /\ \E v \in IntoValues(harness.best) :
          harness' = [harness EXCEPT !.networks = v, !.pc = "sort"]
    /\ UNCHANGED <<app, task_q, bus, cur, ticks_emitted, keys_emitted, pending>>

\* networks.sort_by(..); Ok(networks)
ScanSort ==
    /\ harness.pc = "sort"
    /\ harness' = [harness EXCEPT !.out = sort_by(harness.networks), !.pc = "done"]
    /\ UNCHANGED <<app, task_q, bus, cur, ticks_emitted, keys_emitted, pending>>

NextScan ==
    \/ ScanRow
    \/ ScanCollect
    \/ ScanSort

SpecScan == InitScan /\ [][NextScan]_vars

\* --- error classification on its own: a raw diagnostic text is translated
\* by friendly_error (nmcli.rs connect and the other calls) and the result is
\* tested by error_needs_password (app.rs handle_task_result).
InitError ==
    /\ app = NewApp
    /\ task_q = <<>>
    /\ bus = <<>>
    /\ cur = None
    /\ ticks_emitted = 0
    /\ keys_emitted = 0
    /\ pending = <<>>
    /\ \E t \in RawTexts :
          harness = [msg |-> t, out |-> <<>>, needs_password |-> FALSE, pc |-> "translate"]

ErrTranslate ==
    /\ harness.pc = "translate"
    /\ harness' = [harness EXCEPT !.out = friendly_error(harness.msg), !.pc = "test"]
    /\ UNCHANGED <<app, task_q, bus, cur, ticks_emitted, keys_emitted, pending>>

ErrTest ==
    /\ harness.pc = "test"
    /\ harness' = [harness EXCEPT !.needs_password = error_needs_password(harness.out),
                                  !.pc = "done"]
    /\ UNCHANGED <<app, task_q, bus, cur, ticks_emitted, keys_emitted, pending>>

NextError ==
    \/ ErrTranslate
    \/ ErrTest

SpecError == InitError /\ [][NextError]_vars

\* --- get_status on its own: the worker is in the RefreshStatus of the first
\* refresh (the scan is answered), the three commands give their outputs, and
\* the App handles the StatusUpdate.
InitStatus ==
    /\ \E l \in ScanLists :
          app = handle_task_result(handle_tick(NewApp).app, ScanComplete(TRUE, l, <<>>)).app
    /\ task_q = <<RefreshSavedTask>>
    /\ bus = <<>>
    /\ cur = Some(RefreshStatusTask)
    /\ ticks_emitted = 1
    /\ keys_emitted = 0
    /\ pending = <<RefreshStatusTask, RefreshSavedTask>>
    /\ \E l \in StatusLists, a \in AddressLists, k \in LinkOutputs :
          harness = [list |-> l, addr |-> a, link |-> k, status |-> NoStatus, pc |-> "call"]

\* Task::RefreshStatus(device) => nmcli::get_status(&device)
StatusCall ==
    /\ cur = Some(RefreshStatusTask)
    /\ harness.pc = "call"
    /\ harness' = [harness EXCEPT !.status = get_status(harness.list, harness.addr, harness.link),
                                  !.pc = "send"]
    /\ UNCHANGED <<app, task_q, bus, cur, ticks_emitted, keys_emitted, pending>>

\* result_tx.send(Event::TaskResult(TaskResult::StatusUpdate(status)))
StatusPublish ==
    /\ harness.pc = "send"
    /\ bus' = Append(bus, TaskResultEvent(StatusUpdate(harness.status)))
    /\ cur' = None
    /\ harness' = [harness EXCEPT !.pc = "done"]
    /\ UNCHANGED <<app, task_q, ticks_emitted, keys_emitted, pending>>

NextStatus ==
    \/ StatusCall
    \/ StatusPublish
    \/ HandleTaskResult

SpecStatus == InitStatus /\ [][NextStatus]_vars

\* --- the keyboard + tick thread on its own (event.rs, first thread::spawn),
\* one statement at a time, with the clock and the terminal as its
\* environment. harness holds the thread's position and locals:
\*   elapsed  last_tick.elapsed(), in clock units
\*   timeout  the timeout given to event::poll; waited: the time in that poll
\*   input    the terminal events not yet read ("Key" or another kind)
\*   key      the key read and not yet published, as an Option
\*   sent     the kind of event the last statement published, as an Option
\*   rx       the receiving end of the channel exists
\*   busy     every poll since the last Tick found an event
InitMux ==
    /\ app = NewApp
    /\ task_q = <<>>
    /\ bus = <<>>
    /\ cur = None
    /\ ticks_emitted = 0
    /\ keys_emitted = 0
    /\ pending = <<>>
    /\ harness = [pc |-> "timeout", elapsed |-> 0, timeout |-> 0, waited |-> 0,
                  input |-> <<>>, key |-> None, sent |-> None, rx |-> TRUE, busy |-> TRUE]

MuxFrame == UNCHANGED <<app, task_q, bus, cur, ticks_emitted, keys_emitted, pending>>

\* let timeout = tick_rate.checked_sub(last_tick.elapsed()).unwrap_or(ZERO)
MuxTimeout ==
    /\ harness.pc = "timeout"
    /\ harness' = [harness EXCEPT
           !.timeout = IF harness.elapsed <= TickRate THEN TickRate - harness.elapsed ELSE 0,
           !.waited = 0, !.sent = None, !.pc = "poll"]
    /\ MuxFrame

\* event::poll(timeout).unwrap_or(false): true as soon as an event waits, false
\* when the timeout has passed without one, or when the poll fails.
MuxPoll ==
    /\ harness.pc = "poll"
    /\ \/ /\ harness.input # <<>>
          /\ harness' = [harness EXCEPT !.pc = "read"]
       \/ /\ harness.input = <<>>
          /\ harness.waited >= harness.timeout
          /\ harness' = [harness EXCEPT !.pc = "check", !.busy = FALSE]
       \/ harness' = [harness EXCEPT !.pc = "check", !.busy = FALSE]
    /\ MuxFrame

\* if let Ok(CEvent::Key(key)) = event::read()
MuxRead ==
    /\ harness.pc = "read"
    /\ \/ /\ Head(harness.input) = "Key"
          /\ harness' = [harness EXCEPT !.input = Tail(@), !.key = Some("Key"), !.pc = "send"]
       \/ /\ Head(harness.input) # "Key"
          /\ harness' = [harness EXCEPT !.input = Tail(@), !.pc = "check"]
       \/ harness' = [harness EXCEPT !.pc = "check"]
    /\ MuxFrame

\* Mutant of MuxSendKey: after a key the loop starts over without the tick check.
MuxSendKey_SkipsTickCheck ==
    /\ harness.pc = "send"
    /\ IF harness.rx
       THEN harness' = [harness EXCEPT !.sent = Some("Key"), !.key = None, !.pc = "timeout"]
       ELSE harness' = [harness EXCEPT !.pc = "returned"]
    /\ MuxFrame

\* if tx.send(Event::Key(key)).is_err() { return; }
MuxSendKey ==
    /\ harness.pc = "send"
    /\ IF harness.rx
       THEN harness' = [harness EXCEPT !.sent = Some("Key"), !.key = None, !.pc = "check"]
       ELSE harness' = [harness EXCEPT !.pc = "returned"]
    /\ MuxFrame

\* if last_tick.elapsed() >= tick_rate
MuxCheck ==
    /\ harness.pc = "check"
    /\ harness' = [harness EXCEPT
           !.pc = IF harness.elapsed >= TickRate THEN "tick" ELSE "timeout"]
    /\ MuxFrame

\* if tx.send(Event::Tick).is_err() { return; }  last_tick = Instant::now();
MuxSendTick ==
    /\ harness.pc = "tick"
    /\ IF harness.rx
       THEN harness' = [harness EXCEPT !.sent = Some("Tick"), !.elapsed = 0, !.busy = TRUE,
                                       !.pc = "timeout"]
       ELSE harness' = [harness EXCEPT !.pc = "returned"]
    /\ MuxFrame

MuxThread ==
    \/ MuxTimeout
    \/ MuxPoll
    \/ MuxRead
    \/ MuxSendKey
    \/ MuxCheck
    \/ MuxSendTick

\* One unit of time passes: Instant::now() moves on, and so does a poll that
\* is waiting.
Clock ==
    /\ harness.elapsed < TickRate + MaxLate
    /\ harness' = [harness EXCEPT
           !.elapsed = @ + 1,
           !.waited = IF harness.pc = "poll" /\ @ < harness.timeout THEN @ + 1 ELSE @]
    /\ MuxFrame

\* The terminal gets an event: a key, or an event of another kind (a resize).
TerminalEvent ==
    /\ Len(harness.input) < MaxInput
    /\ \E e \in {"Key", "Resize"} : harness' = [harness EXCEPT !.input = Append(@, e)]
    /\ MuxFrame

\* The EventLoop, and with it the receiver, is dropped.
DropReceiver ==
    /\ harness.rx
    /\ harness' = [harness EXCEPT !.rx = FALSE]
    /\ MuxFrame

NextMux ==
    \/ MuxThread
    \/ Clock
    \/ TerminalEvent
    \/ DropReceiver

\* The thread is scheduled and time passes; the terminal and the receiver are
\* free to act or not.
SpecMux == InitMux /\ [][NextMux]_vars /\ WF_vars(MuxThread) /\ WF_vars(Clock)

\* ------------------------------------------------------------------ claims
\* The step in which the main thread receives an event of this type from the
\* bus and runs its handler.
Handling(type) == Received(type) /\ bus' = Tail(bus)

\* The step in which the main thread handles a key, and the handler sends tasks.
KeyDispatch == Handling("Key") /\ pending' # pending

\* C1: a key (Connect, Disconnect, Forget, manual refresh) makes the App send
\* a request only in a state where bg_status is Idle.
C1_UserDispatchOnlyWhenIdle == [][KeyDispatch => app.bg_status = "Idle"]_vars

\* The result kind that clears a bg_status value.
MatchingResult(status) ==
    CASE status = "Scanning" -> "ScanComplete"
      [] status = "Connecting" -> "ConnectComplete"
      [] status = "Disconnecting" -> "DisconnectComplete"
      [] status = "Forgetting" -> "ForgetComplete"
      [] OTHER -> "none"

\* C2: bg_status goes from a non-Idle value to Idle only when the result
\* matching that value is handled, every such result sets it to Idle, and a
\* result of another kind leaves a non-Idle status as it is.
C2_IdleOnlyOnMatchingResult ==
    [][app.bg_status # "Idle" =>
        /\ app'.bg_status = "Idle" =>
              Handling("TaskResult") /\ Head(bus).res.kind = MatchingResult(app.bg_status)
        /\ Handling("TaskResult") /\ Head(bus).res.kind = MatchingResult(app.bg_status) =>
              app'.bg_status = "Idle"
        /\ Handling("TaskResult") /\ Head(bus).res.kind # MatchingResult(app.bg_status) =>
              app'.bg_status = app.bg_status]_vars

\* What identifies the request of a task and of its result: the kind of
\* result, and the ssid a Connect carries through.
ResultKind(kind) ==
    CASE kind = "Scan" -> "ScanComplete"
      [] kind = "Connect" -> "ConnectComplete"
      [] kind = "Disconnect" -> "DisconnectComplete"
      [] kind = "Forget" -> "ForgetComplete"
      [] kind = "RefreshStatus" -> "StatusUpdate"
      [] OTHER -> "SavedUpdate"
TaskSig(task) == <<ResultKind(task.kind), IF task.kind = "Connect" THEN task.arg ELSE "">>
ResultSig(res) == <<res.kind, res.ssid>>

RECURSIVE ResultSigs(_)
\* The results on the bus, oldest first.
ResultSigs(events) ==
    IF events = <<>> THEN <<>>
    ELSE IF Head(events).type = "TaskResult"
         THEN <<ResultSig(Head(events).res)>> \o ResultSigs(Tail(events))
         ELSE ResultSigs(Tail(events))

TaskSigs(tasks) == [i \in DOMAIN tasks |-> TaskSig(tasks[i])]

\* C3: the worker runs one task at a time, in the order sent: the tasks sent
\* and not yet answered are, in order, the one it is executing and then the
\* queued ones, each present exactly once, and every earlier one has exactly
\* one result published.
C3_WorkerSerialFifo ==
    /\ Len(cur) <= 1
    /\ Len(ResultSigs(bus)) + Len(cur) + Len(task_q) = Len(pending)
    /\ cur \o task_q = SubSeq(pending, Len(ResultSigs(bus)) + 1, Len(pending))

C3_Witness ==
    /\ cur # None
    /\ task_q # <<>>
    /\ ResultSigs(bus) # <<>>
    /\ cur[1].kind = "RefreshStatus"

\* C4: the results reach the App in the order of the requests: the results
\* waiting on the bus, whatever keys and ticks lie between them, are the
\* results of the oldest unanswered requests, in order and of their kind.
C4_ResultsInSendOrder ==
    /\ Len(ResultSigs(bus)) <= Len(pending)
    /\ ResultSigs(bus) = SubSeq(TaskSigs(pending), 1, Len(ResultSigs(bus)))

C4_Witness ==
    /\ Len(bus) = 3
    /\ bus[1].type = "TaskResult"
    /\ bus[2].type # "TaskResult"
    /\ bus[3].type = "TaskResult"
    /\ bus[1].res.kind # bus[3].res.kind

\* C5: each selection index is 0 when its list is empty and less than the
\* length of the list otherwise.
InBounds(index, list) == IF list = <<>> THEN index = 0 ELSE index < Len(list)
C5_IndexInBounds ==
    /\ InBounds(app.net_index, app.networks)
    /\ InBounds(app.saved_index, app.saved)

\* Ctrl+C: the CONTROL modifier with the code Char('c').
IsCtrlC(k) == k.ctrl /\ k.code = "c"

\* The App fields no handler of a modal touches, and the global and view
\* actions: quit, view switch, selection move.
ModalFrame(a, b) ==
    /\ b.view = a.view
    /\ b.net_index = a.net_index
    /\ b.saved_index = a.saved_index
    /\ b.running = a.running

\* C6: while a modal is active, a key other than Ctrl+C is handled by the
\* modal alone: it leaves view, net_index, saved_index and running as they
\* are, starts no scan, and does what handle_modal_key does for the modal.
C6_ModalInterceptsKeys ==
    app.modal.kind # "None" =>
        \A k \in Keys : ~IsCtrlC(k) =>
            LET r == handle_key(app, k) IN
            /\ ModalFrame(app, r.app)
            /\ \A i \in DOMAIN r.tasks : r.tasks[i].kind \notin {"Scan", "RefreshStatus", "RefreshSaved"}
            /\ r.app.ticks_since_scan = app.ticks_since_scan
            /\ r.app.modal.kind \in {"None", app.modal.kind}
            /\ app.modal.kind \in {"Message", "ConfirmDisconnect", "ConfirmForget"} =>
                  r.app.modal = NoModal

\* A key typed into an open password prompt went to the buffer and did not quit.
C6_Witness ==
    /\ app.modal.kind = "PasswordInput"
    /\ app.password = <<"q">>
    /\ app.running
    /\ app.bg_status = "Idle"

\* C7: Ctrl+C sets running to false in every state, sends no task and changes
\* no other field.
C7_CtrlCQuits ==
    \A k \in Keys : IsCtrlC(k) =>
        handle_key(app, k) = Ret([app EXCEPT !.running = FALSE], <<>>)

\* The App was stopped while a password was being typed: only Ctrl+C stops
\* it there.
C7_Witness ==
    /\ ~app.running
    /\ app.modal.kind = "PasswordInput"
    /\ app.password # <<>>

\* The keys that quit in App state a.
IsQuit(a, k) == IsCtrlC(k) \/ (a.modal.kind = "None" /\ k.code \in {"q", "Q"})

\* C8: running becomes false only when a quit key is handled (Ctrl+C, or q/Q
\* with no modal); no other key, no tick and no task result changes running,
\* and it never goes back to true.
C8_QuitOnlyByQuitKey ==
    [][/\ app'.running # app.running => app.running /\ Handling("Key")
       /\ \A k \in Keys : handle_key(app, k).app.running = (app.running /\ ~IsQuit(app, k))
       /\ Handling("Tick") \/ Handling("TaskResult") => app'.running = app.running]_vars

\* The App was stopped with q while an error result was still on the bus.
C8_Witness ==
    /\ ~app.running
    /\ app.modal.kind = "None"
    /\ \E i \in DOMAIN bus : bus[i].type = "TaskResult" /\ ~bus[i].res.ok

Refresh == <<ScanTask, RefreshStatusTask, RefreshSavedTask>>

\* C9: a tick advances the spinner and the counter; it sends the three
\* refresh requests, sets Scanning and resets the counter exactly when the
\* incremented counter has reached the threshold and bg_status is Idle, and
\* otherwise sends nothing and leaves bg_status as it is.
C9_TickRefreshAtThreshold ==
    [][Handling("Tick") =>
        /\ app'.spinner_frame = (app.spinner_frame + 1) % 4
        /\ IF app.ticks_since_scan + 1 >= AUTO_REFRESH_TICKS /\ app.bg_status = "Idle"
           THEN /\ task_q' = task_q \o Refresh
                /\ app'.bg_status = "Scanning"
                /\ app'.ticks_since_scan = 0
           ELSE /\ task_q' = task_q
                /\ app'.bg_status = app.bg_status
                /\ app'.ticks_since_scan = app.ticks_since_scan + 1]_vars

\* A refresh was sent by the tick that took the counter from 119 to 120: the
\* lists of an earlier refresh are in place and no key was pressed.
C9_Witness ==
    /\ app.bg_status = "Scanning"
    /\ app.ticks_since_scan = 0
    /\ app.networks # <<>>
    /\ app.status.ssid # None
    /\ pending = Refresh
    /\ keys_emitted = 0

\* C10: the App starts with ticks_since_scan at the threshold and bg_status
\* Idle, so a Tick handled first sends Scan, RefreshStatus, RefreshSaved.
C10_FirstTickRefreshes ==
    [][app = NewApp /\ pending = <<>> =>
        /\ app.ticks_since_scan = AUTO_REFRESH_TICKS
        /\ app.bg_status = "Idle"
        /\ Handling("Tick") =>
              /\ task_q' = task_q \o Refresh
              /\ app'.bg_status = "Scanning"]_vars

\* The first event was a Tick and the three requests are out.
C10_Witness ==
    /\ ticks_emitted = 1
    /\ keys_emitted = 0
    /\ pending = Refresh
    /\ app.bg_status = "Scanning"
    /\ app.ticks_since_scan = 0

ForcingKinds == {"ConnectComplete", "DisconnectComplete", "ForgetComplete"}

\* C11: a successful ConnectComplete, DisconnectComplete or ForgetComplete
\* sets ticks_since_scan to the threshold (and bg_status to Idle); every other
\* result leaves the counter as it is; no key that leaves bg_status Idle
\* changes the counter; so the next Tick handled with bg_status still Idle
\* finds the counter at the threshold and sends the refresh.
C11_SuccessForcesRefresh ==
    [][/\ Handling("TaskResult") =>
            IF Head(bus).res.kind \in ForcingKinds /\ Head(bus).res.ok
            THEN app'.ticks_since_scan = AUTO_REFRESH_TICKS /\ app'.bg_status = "Idle"
            ELSE app'.ticks_since_scan = app.ticks_since_scan
       /\ Handling("Key") /\ app'.bg_status = "Idle" =>
            app'.ticks_since_scan = app.ticks_since_scan
       /\ Handling("Tick") /\ app.bg_status = "Idle"
              /\ app.ticks_since_scan >= AUTO_REFRESH_TICKS =>
            task_q' = task_q \o Refresh /\ app'.bg_status = "Scanning"]_vars

\* The tick after a successful connect sent the refresh: the success message
\* is still open.
C11_Witness ==
    /\ app.modal.kind = "Message"
    /\ Contains(app.modal.text, "Connected to ")
    /\ app.bg_status = "Scanning"
    /\ app.ticks_since_scan = 0
    /\ pending = Refresh

\* C12: a failed ConnectComplete whose text is classified password-needed
\* opens PasswordInput with the buffer empty, visibility off and
\* password_target_ssid the name the result carries, which is the name of the
\* oldest unanswered request, a Connect; every other failed ConnectComplete
\* opens Message with the error text.
C12_PasswordErrorOpensPrompt ==
    [][Handling("TaskResult") /\ Head(bus).res.kind = "ConnectComplete"
          /\ ~Head(bus).res.ok =>
            IF error_needs_password(Head(bus).res.text)
            THEN /\ app'.modal = PasswordInput
                 /\ app'.password = <<>>
                 /\ app'.password_visible = FALSE
                 /\ app'.password_target_ssid = Head(bus).res.ssid
                 /\ Head(pending) = ConnectTask(Head(pending).arg, Head(pending).pw)
                 /\ Head(pending).arg = Head(bus).res.ssid
            ELSE app'.modal = Message(Head(bus).res.text)]_vars

\* The prompt is open for the network whose connect failed, its buffer empty.
C12_Witness ==
    /\ app.modal = PasswordInput
    /\ app.password = <<>>
    /\ ~app.password_visible
    /\ app.password_target_ssid = "cafe"
    /\ app.bg_status = "Idle"

\* C13: every step that sets modal to a modal starts with no modal.
C13_ModalOpensOnlyFromNone ==
    [][app'.modal # app.modal /\ app'.modal.kind # "None" => app.modal.kind = "None"]_vars

Enter == Key("Enter", FALSE)

\* C14: with no modal and bg_status Idle, Enter on the selected entry that is
\* the active connection opens the Message, sends nothing and changes nothing
\* else, in both views.
C14_EnterOnActiveShowsMessage ==
    app.modal.kind = "None" /\ app.bg_status = "Idle" =>
        LET r == handle_key(app, Enter) IN
        /\ app.view = "AvailableNetworks" /\ app.net_index < Len(app.networks)
              /\ app.networks[app.net_index + 1].in_use =>
                r = Ret([app EXCEPT !.modal = Message(AlreadyConnected)], <<>>)
        /\ app.view = "SavedNetworks" /\ app.saved_index < Len(app.saved)
              /\ app.saved[app.saved_index + 1].active =>
                r = Ret([app EXCEPT !.modal = Message(AlreadyConnected)], <<>>)

\* Enter was pressed on the active profile of the Saved view.
C14_Witness ==
    /\ app.view = "SavedNetworks"
    /\ app.modal = Message(AlreadyConnected)
    /\ app.bg_status = "Idle"
    /\ pending = <<>>

\* C15: with no modal and bg_status Idle, Enter on the selected entry that is
\* not the active connection sends exactly one Connect and sets Connecting:
\* the ssid with Some("") in the Available view, the profile name with None in
\* the Saved view; with nothing selected (an empty list) it sends nothing.
C15_EnterConnects ==
    app.modal.kind = "None" /\ app.bg_status = "Idle" =>
        LET r == handle_key(app, Enter) IN
        /\ app.view = "AvailableNetworks" =>
              IF app.net_index < Len(app.networks)
              THEN ~app.networks[app.net_index + 1].in_use =>
                     r = Ret([app EXCEPT !.bg_status = "Connecting"],
                             <<ConnectTask(app.networks[app.net_index + 1].ssid, Some(<<>>))>>)
              ELSE r = Ret(app, <<>>)
        /\ app.view = "SavedNetworks" =>
              IF app.saved_index < Len(app.saved)
              THEN ~app.saved[app.saved_index + 1].active =>
                     r = Ret([app EXCEPT !.bg_status = "Connecting"],
                             <<ConnectTask(app.saved[app.saved_index + 1].name, None)>>)
              ELSE r = Ret(app, <<>>)
        /\ app.view = "AvailableNetworks" /\ app.networks = <<>> => r.tasks = <<>>
        /\ app.view = "SavedNetworks" /\ app.saved = <<>> => r.tasks = <<>>

\* Enter on the second profile of the Saved view sent the reconnect by name.
C15_Witness ==
    /\ app.view = "SavedNetworks"
    /\ app.saved_index = 1
    /\ app.bg_status = "Connecting"
    /\ pending = <<ConnectTask("cafe", None)>>

\* C16 as claimed: Enter in PasswordInput sends a Connect for
\* password_target_ssid that the adapter runs as the secured join, with the
\* password literal, whatever the buffer holds.
C16_PasswordEnterSecured ==
    app.modal.kind = "PasswordInput" =>
        LET r == handle_key(app, Enter) IN
        /\ r.tasks = <<ConnectTask(app.password_target_ssid, Some(app.password))>>
        /\ connect(r.tasks[1].arg, r.tasks[1].pw) =
              <<"device", "wifi", "connect", app.password_target_ssid,
                "password", app.password>>

\* C16 amended: Enter in PasswordInput sends Connect(password_target_ssid,
\* Some(buffer)), closes the modal and sets Connecting; the adapter runs it as
\* the secured join with the password literal when the buffer is not empty,
\* and as the open-network join, without a password argument, when it is.
C16_PasswordEnterByBuffer ==
    app.modal.kind = "PasswordInput" =>
        LET r == handle_key(app, Enter) IN
        /\ r = Ret([app EXCEPT !.modal = NoModal, !.bg_status = "Connecting"],
                   <<ConnectTask(app.password_target_ssid, Some(app.password))>>)
        /\ connect(r.tasks[1].arg, r.tasks[1].pw) =
              IF app.password # <<>>
              THEN <<"device", "wifi", "connect", app.password_target_ssid,
                     "password", app.password>>
              ELSE <<"device", "wifi", "connect", app.password_target_ssid>>

\* A typed password was submitted.
C16_Witness ==
    /\ pending # <<>>
    /\ pending[Len(pending)].kind = "Connect"
    /\ pending[Len(pending)].arg = app.password_target_ssid
    /\ pending[Len(pending)].pw # None
    /\ pending[Len(pending)].pw[1] # <<>>
    /\ app.bg_status = "Connecting"
    /\ app.modal = NoModal

ActionCodes == {"f", "F", "d", "D", "Enter", "r", "R"}

\* C17: with no modal and bg_status not Idle, the keys f/F, d/D, Enter and
\* r/R send nothing and leave the whole App as it is, in both views.
C17_BusyKeysNoOp ==
    app.modal.kind = "None" /\ app.bg_status # "Idle" =>
        \A c \in ActionCodes : handle_key(app, Key(c, FALSE)) = Ret(app, <<>>)

\* A connect is in flight in the Saved view with a profile selected and a
\* connection active: f, d, Enter and r would all act if bg_status were Idle.
C17_Witness ==
    /\ app.modal.kind = "None"
    /\ app.bg_status = "Connecting"
    /\ app.view = "SavedNetworks"
    /\ app.saved_index < Len(app.saved)
    /\ app.status.ssid # None

\* C18: a key sends Disconnect only in a state whose stored status has an
\* active connection.
C18_DisconnectNeedsConnection ==
    [][Handling("Key") /\ pending' = Append(pending, DisconnectTask) =>
          app.status.ssid # None]_vars

\* C19: a failed SavedUpdate leaves the whole App as it is and sends nothing.
C19_SavedErrorSwallowed ==
    [][Handling("TaskResult") /\ Head(bus).res.kind = "SavedUpdate"
          /\ ~Head(bus).res.ok =>
            app' = app /\ task_q' = task_q]_vars

\* The failed listing of a later refresh is the next event, while the list of
\* an earlier refresh is stored with its second entry selected.
C19_Witness ==
    /\ app.running
    /\ bus # <<>>
    /\ Head(bus).type = "TaskResult"
    /\ Head(bus).res.kind = "SavedUpdate"
    /\ ~Head(bus).res.ok
    /\ app.saved # <<>>
    /\ app.saved_index = 1

\* C20 as claimed: the fields parse_terse_line returns for the line written
\* from a sequence of field values are those field values.
C20_ParseRoundTrip ==
    harness.pc = "done" => harness.out = harness.fields

\* No field followed by a separator ends with a backslash.
NoBackslashBeforeSeparator(fields) ==
    \A i \in 1..(Len(fields) - 1) :
        fields[i] = <<>> \/ fields[i][Len(fields[i])] # "\\"

\* C20 amended: for a sequence of one or more field values, the round trip
\* holds exactly when no field but the last ends with '\'; a backslash that
\* ends an earlier field is read with the separator as an escaped colon.
C20_ParseRoundTripGuarded ==
    harness.pc = "done" =>
        (harness.out = harness.fields <=> NoBackslashBeforeSeparator(harness.fields))

\* Two fields, with an escaped colon and a backslash, were read back.
C20_Witness ==
    /\ harness.pc = "done"
    /\ harness.fields = << <<"\\", ":">>, <<":", "\\">> >>
    /\ harness.out = harness.fields

\* The k-th smallest element of a set of numbers.
Nth(S, k) == CHOOSE i \in S : Cardinality({j \in S : j < i}) = k - 1

\* The colons of a line that separate fields: those not written after a
\* backslash.
Separators(line) ==
    {i \in DOMAIN line : line[i] = ":" /\ (i = 1 \/ line[i - 1] # "\\")}

\* A segment with every backslash that stands before a colon taken out.
Unescape(seg) ==
    LET keep == {i \in DOMAIN seg : ~(seg[i] = "\\" /\ i < Len(seg) /\ seg[i + 1] = ":")}
    IN  [k \in 1..Cardinality(keep) |-> seg[Nth(keep, k)]]

\* The k-th segment of a line: what lies between separator k-1 and separator k.
Segment(line, k) ==
    LET S == Separators(line)
        from == IF k = 1 THEN 1 ELSE Nth(S, k - 1) + 1
        to == IF k = Cardinality(S) + 1 THEN Len(line) ELSE Nth(S, k) - 1
    IN  SubSeq(line, from, to)

\* C21: parse_terse_line returns one field more than the line has separating
\* colons; field k is segment k of the line, empty when the segment is empty,
\* with each backslash-colon read as a colon and every other backslash kept.
C21_FieldsAreSegments ==
    harness.pc = "done" =>
        /\ Len(harness.out) = Cardinality(Separators(harness.line)) + 1
        /\ \A k \in DOMAIN harness.out :
              harness.out[k] = Unescape(Segment(harness.line, k))

\* A line with an empty first field, an escaped colon and a backslash at its
\* end was read.
C21_Witness ==
    /\ harness.pc = "done"
    /\ harness.line = <<":", "\\", ":", "\\">>
    /\ harness.out = << <<>>, <<":", "\\">> >>

\* The Network a complete row with an ssid is read as.
RowNetwork(fields) ==
    Network(fields[2], unwrap_or(ParseU8(fields[3]), 0), fields[4], Trim(fields[1]) = "*")
IsNetworkRow(fields) == Len(fields) >= 4 /\ fields[2] # ""

\* C22: of two rows with the same ssid, in either order, the one in the list
\* is the in_use one when exactly one is in_use, and otherwise the one with
\* the higher signal.
C22_DedupSurvivor ==
    (/\ harness.pc = "done"
     /\ Len(harness.rows) = 2
     /\ IsNetworkRow(harness.rows[1])
     /\ IsNetworkRow(harness.rows[2])
     /\ harness.rows[1][2] = harness.rows[2][2]) =>
        LET a == RowNetwork(harness.rows[1])
            b == RowNetwork(harness.rows[2])
        IN  /\ Len(harness.out) = 1
            /\ IF a.in_use # b.in_use
               THEN harness.out[1] = (IF a.in_use THEN a ELSE b)
               ELSE /\ harness.out[1].in_use = a.in_use
                    /\ harness.out[1].signal =
                          (IF a.signal >= b.signal THEN a.signal ELSE b.signal)

\* C23: the list of a successful scan has no row with an empty ssid, has each
\* ssid once at most, and has the in_use rows first and, among the in_use rows
\* and among the others, the signals in descending order.
C23_ScanListOrdered ==
    harness.pc = "done" =>
        /\ \A i \in DOMAIN harness.out : harness.out[i].ssid # ""
        /\ \A i, j \in DOMAIN harness.out :
              i # j => harness.out[i].ssid # harness.out[j].ssid
        /\ \A i, j \in DOMAIN harness.out :
              i < j => /\ harness.out[j].in_use => harness.out[i].in_use
                       /\ harness.out[i].in_use = harness.out[j].in_use =>
                             harness.out[i].signal >= harness.out[j].signal

\* A hidden row was dropped, a duplicate was merged, and the in_use network is
\* first although its signal is the lowest.
C23_Witness ==
    /\ harness.pc = "done"
    /\ Len(harness.rows) = 3
    /\ harness.rows[1][2] = ""
    /\ harness.networks # harness.out
    /\ Len(harness.out) = 2
    /\ harness.out[1].in_use /\ harness.out[1].signal = 30
    /\ ~harness.out[2].in_use /\ harness.out[2].signal = 70

\* The rules of the classification in their fixed order: the phrases a text
\* must contain, and the friendly text of the category.
ErrorRules ==
    << [all |-> {"No network with SSID"},
        text |-> <<"Network not found. It may be out of range or hidden.">>],
       [all |-> {"Secrets were required, but not provided"},
        text |-> <<"Password required", ". This network needs a password to connect.">>],
       [all |-> {"No suitable device found"},
        text |-> <<"No WiFi adapter found. Make sure your WiFi hardware is enabled.">>],
       [all |-> {"is not running"},
        text |-> <<"NetworkManager ", "is not running",
                   ". Start it with: sudo systemctl start NetworkManager">>],
       [all |-> {"Error: Connection", "not found"},
        text |-> <<"Saved connection ", "not found", ". It may have already been removed.">>],
       [all |-> {"Passwords or encryption keys are required"},
        text |-> <<"Incorrect password", ". Please try again.">>],
       [all |-> {"permission"},
        text |-> <<"Permission denied. You may need to run with appropriate privileges.">>],
       [all |-> {"not authorized"},
        text |-> <<"Permission denied. You may need to run with appropriate privileges.">>] >>

\* The rules a text matches, and the first of them (0 when there is none).
MatchedRules(msg) ==
    {i \in DOMAIN ErrorRules : \A p \in ErrorRules[i].all : Contains(msg, p)}
FirstRule(msg) ==
    IF MatchedRules(msg) = {} THEN 0
    ELSE CHOOSE i \in MatchedRules(msg) : \A j \in MatchedRules(msg) : i <= j

\* C24: the friendly text is that of the first rule, in the fixed order, whose
\* phrases the raw text contains; a text that matches no rule is returned
\* unchanged, and the empty text gives the unknown-error message.
C24_FirstRuleClassifies ==
    harness.pc # "translate" =>
        harness.out =
            IF FirstRule(harness.msg) # 0 THEN ErrorRules[FirstRule(harness.msg)].text
            ELSE IF harness.msg = <<>> THEN <<"An unknown error occurred.">>
            ELSE harness.msg

\* A text with the phrases of two rules, the later rule's phrase first, got
\* the category of the earlier rule.
C24_Witness ==
    /\ harness.pc = "done"
    /\ harness.msg = <<"is not running", "No suitable device found">>
    /\ harness.out = <<"No WiFi adapter found. Make sure your WiFi hardware is enabled.">>

\* C25: the translated text is flagged password-needed exactly when the raw
\* text was classified by the "password required" rule or the "incorrect
\* password" rule.
C25_FlagMatchesCategory ==
    harness.pc = "done" =>
        (harness.needs_password <=> FirstRule(harness.msg) \in {2, 6})

\* C27: in ConfirmDisconnect and ConfirmForget, y/Y closes the modal, sets
\* bg_status to Disconnecting or Forgetting and sends the one matching
\* request; every other key but Ctrl+C only closes the modal; in Message
\* every key but Ctrl+C only closes the modal.
C27_ConfirmationKeys ==
    \A k \in Keys : ~IsCtrlC(k) =>
        LET r == handle_key(app, k) IN
        /\ app.modal.kind = "ConfirmDisconnect" =>
              IF k.code \in {"y", "Y"}
              THEN r = Ret([app EXCEPT !.modal = NoModal, !.bg_status = "Disconnecting"],
                           <<DisconnectTask>>)
              ELSE r = Ret([app EXCEPT !.modal = NoModal], <<>>)
        /\ app.modal.kind = "ConfirmForget" =>
              IF k.code \in {"y", "Y"}
              THEN r = Ret([app EXCEPT !.modal = NoModal, !.bg_status = "Forgetting"],
                           <<ForgetTask(app.modal.name)>>)
              ELSE r = Ret([app EXCEPT !.modal = NoModal], <<>>)
        /\ app.modal.kind = "Message" => r = Ret([app EXCEPT !.modal = NoModal], <<>>)

\* The forget of the selected profile was confirmed.
C27_Witness ==
    /\ app.modal = NoModal
    /\ app.bg_status = "Forgetting"
    /\ app.view = "SavedNetworks"
    /\ pending = <<ForgetTask("home")>>

BusyKinds == {"Scan", "Connect", "Disconnect", "Forget"}

\* C30: while a Scan, Connect, Disconnect or Forget that was sent has no
\* result handled yet, bg_status is not Idle.
C30_BusyWhileUnanswered ==
    (\E i \in DOMAIN pending : pending[i].kind \in BusyKinds) => app.bg_status # "Idle"

\* The listing has a row marked in use.
HasInUseRow(list) ==
    \E i \in DOMAIN unwrap_or(list, <<>>) : list[1][i] # <<>> /\ Trim(list[1][i][1]) = "*"

\* The listing has an in-use row that names its network.
Connected(list) ==
    \E i \in DOMAIN unwrap_or(list, <<>>) :
        Len(list[1][i]) >= 3 /\ Trim(list[1][i][1]) = "*" /\ list[1][i][2] # ""

\* The address query ran and gave an address row.
HasAddress(addr) ==
    \E i \in DOMAIN unwrap_or(addr, <<>>) :
        Len(addr[1][i]) >= 2 /\ Head(addr[1][i][1]) = "IP4.ADDRESS"

\* The link query ran and gave a bitrate line.
HasRate(link) ==
    \E i \in DOMAIN unwrap_or(link, <<>>) :
        \E j \in DOMAIN link[1][i] :
            link[1][i][j] = "tx bitrate:" /\ \A h \in 1..(j - 1) : link[1][i][h] = "\t"

\* ip and speed are present only with an ssid.
Coherent(status) == (status.ip # None \/ status.speed # None) => status.ssid # None

\* C28: the status get_status returns, and the status the App stores, has ip
\* and speed only together with an ssid; without an in-use row all four fields
\* are absent; with one that names its network, ip is present exactly when the
\* address query ran and gave an address and speed exactly when the link query
\* ran and gave a bitrate, each whatever became of the other query.
C28_StatusCoherent ==
    /\ Coherent(app.status)
    /\ harness.pc = "done" /\ bus = <<>> => app.status = harness.status
    /\ harness.pc # "call" =>
          /\ Coherent(harness.status)
          /\ ~HasInUseRow(harness.list) => harness.status = NoStatus
          /\ harness.status.ssid # None <=> Connected(harness.list)
          /\ Connected(harness.list) =>
                /\ harness.status.ip # None <=> HasAddress(harness.addr)
                /\ harness.status.speed # None <=> HasRate(harness.link)

\* The listing names the network in use, the address query answers and the
\* link query fails: the App stores the status with only the speed absent.
C28_Witness ==
    /\ harness.pc = "done"
    /\ bus = <<>>
    /\ harness.link = None
    /\ app.status = ConnectionStatus(Some("home"), Some(70), Some("10.0.0.2"), None)

\* C26: in the keyboard + tick thread, whatever the terminal does, (1) a key
\* that was read is published as a Key event before the tick check is reached,
\* and leaves the thread's hands only by being published, and (2) while the
\* receiver exists a Tick is published again and again.
C26_TicksKeepComing ==
    /\ [](harness.pc \in {"check", "tick", "timeout", "poll", "read"} => harness.key = None)
    /\ [][harness.key # None /\ harness'.key = None => harness'.sent = Some("Key")]_vars
    /\ []<>(harness.sent = Some("Tick") \/ ~harness.rx)

\* A Tick is published at the end of an interval in which every poll found an
\* event, with events still waiting.
C26_Witness ==
    /\ harness.sent = Some("Tick")
    /\ harness.busy
    /\ Len(harness.input) = MaxInput
    /\ harness.rx

\* C29: with the worker and the main loop scheduled and every adapter call
\* returning, a bg_status that is not Idle becomes Idle again, unless the
\* user quits first.
C29_BusyEndsIdle ==
    (app.running /\ app.bg_status # "Idle") ~> (app.bg_status = "Idle" \/ ~app.running)

\* A disconnect was confirmed, the worker answered it and every other
\* request, and the App is Idle again with the success message.
C29_Witness ==
    /\ app.running
    /\ app.bg_status = "Idle"
    /\ app.modal = Message(<<"Disconnected.">>)
    /\ pending = <<>>
    /\ cur = None

\* C31: the requests the App has sent and whose results it has not handled
\* are never more than 5.
C31_QueueBounded == Len(pending) <= 5

\* The handler's outcome for the event the main loop receives next, were it
\* a Tick or the result at the head of the bus.
NextOutcomes ==
    IF bus = <<>> \/ ~app.running THEN {}
    ELSE IF Head(bus).type = "Tick" THEN {handle_tick(app)}
    ELSE IF Head(bus).type = "TaskResult" THEN {handle_task_result(app, Head(bus).res)}
    ELSE {}

\* C32: (1) a key opens ConfirmForget only if it is f/F in the Saved view with
\* a profile selected, and the modal then holds that profile's name, and no
\* Tick or result opens it; (2) while the modal is open no Tick or result
\* changes the name it holds, and y/Y sends Forget for that name, whatever the
\* saved list and saved_index are by then; (3) f/F in the Available view
\* opens no modal.
C32_ForgetTargetsCapturedName ==
    /\ \A k \in Keys :
          LET r == handle_key(app, k) IN
          /\ r.app.modal.kind = "ConfirmForget" /\ r.app.modal # app.modal =>
                /\ k.code \in {"f", "F"}
                /\ app.view = "SavedNetworks"
                /\ app.modal = NoModal
                /\ app.saved # <<>>
                /\ app.saved_index < Len(app.saved)
                /\ r.app.modal = ConfirmForget(app.saved[app.saved_index + 1].name)
                /\ r.tasks = <<>>
          /\ app.modal.kind = "ConfirmForget" /\ k.code \in {"y", "Y"} =>
                r.tasks = <<ForgetTask(app.modal.name)>>
          /\ app.view = "AvailableNetworks" /\ k.code \in {"f", "F"} /\ r.app.modal # app.modal =>
                r.app.modal = NoModal
    /\ \A r \in NextOutcomes :
          r.app.modal.kind = "ConfirmForget" => r.app.modal = app.modal

\* ConfirmForget holds the name of a profile, and the saved list has changed
\* to the empty list while it was open.
C32_Witness ==
    /\ app.running
    /\ app.modal = ConfirmForget("home")
    /\ app.saved = <<>>

\* The result the main loop receives next, as an Option.
NextResult ==
    IF app.running /\ bus # <<>> /\ Head(bus).type = "TaskResult"
    THEN Some(Head(bus).res) ELSE None

\* C33: a StatusUpdate replaces the stored status and nothing else and sends
\* nothing; and a result that ends Scanning is a ScanComplete.
C33_StatusUpdateFrame ==
    \A res \in {NextResult[i] : i \in DOMAIN NextResult} :
        LET r == handle_task_result(app, res) IN
        /\ res.kind = "StatusUpdate" => r = Ret([app EXCEPT !.status = res.status], <<>>)
        /\ app.bg_status = "Scanning" /\ r.app.bg_status # "Scanning" =>
              res.kind = "ScanComplete"

====
